---- MODULE Spec2Model ----
(***************************************************************************)
(* InsightsLibrary: the TinyDB document store with its in-memory indexes   *)
(* (models.py), the PDF ingestion run (extractor.py), the page annotation  *)
(* run (recognizer.py) and the retrievers (agents.py).                     *)
(***************************************************************************)
EXTENDS Integers, Sequences, FiniteSets, TLC

VARIABLES
    files,          \* TinyDB table 'files': doc_id -> row
    file_index,     \* TinyDBManager._file_index: file_id / normalized path -> doc_id
    contents,       \* TinyDB table 'contents': doc_id -> row
    content_index,  \* TinyDBManager._content_index: page_id -> doc_id, file_id -> set of doc_ids
    disk,           \* the PDF files of FILES_DIR: name -> absent, or hash / mtime / page count
    ing,            \* the position of PDFExtractor.run and the locals it carries
    ann,            \* the position of IMGRecognizer.image_understanding and its tasks
    hist,           \* what the current run has done so far (observation only)
    search,         \* a retriever call (agents.py): its arguments and, once made, its outcome
    page_dirs,      \* the PDF names whose directory of PAGES_DIR holds rendered images
    faiss           \* Embedder: the persisted index and mapping, a rebuild and a query under way

vars == <<files, file_index, contents, content_index, disk, ing, ann, hist, search, page_dirs, faiss>>
store == <<files, file_index, contents, content_index>>

----------------------------------------------------------------------------
(* Bounds of the model *)

MaxStoreFiles == 3     \* rows ever inserted into the files table
MaxPages == 2          \* pages of a PDF on disk
MaxDiskChanges == 1    \* edits / touches of PDFs on disk
MaxIngestRuns == 3     \* ingestion runs started
MaxAnnRuns == 2        \* annotation runs started

----------------------------------------------------------------------------
(* Values *)

NoDoc == 0
NoneVal == "None"
Abs(x) == IF x < 0 THEN 0 - x ELSE x

\* uuid.uuid4(): a fresh identifier; the n-th one drawn
Uuid(kind, n) == <<kind, ToString(n)>>

\* os.path.normpath on a relative POSIX path given as its components
RECURSIVE NormComps(_, _)
NormComps(rest, acc) ==
    IF rest = <<>> THEN acc
    ELSE LET c == Head(rest) IN
         IF c = "." \/ c = ""
         THEN NormComps(Tail(rest), acc)
         ELSE IF c = ".." /\ acc # <<>> /\ acc[Len(acc)] # ".."
              THEN NormComps(Tail(rest), SubSeq(acc, 1, Len(acc) - 1))
              ELSE NormComps(Tail(rest), Append(acc, c))

normpath(p) ==
    LET r == NormComps(p, <<>>) IN IF r = <<>> THEN <<".">> ELSE r

----------------------------------------------------------------------------
(* TinyDB tables: doc_id -> row; doc ids grow and are not reused *)

NextDocId(table) ==
    IF DOMAIN table = {} THEN 1
    ELSE 1 + CHOOSE m \in DOMAIN table : \A d \in DOMAIN table : d <= m

TableInsert(table, id, row) ==
    [d \in DOMAIN table \cup {id} |-> IF d = id THEN row ELSE table[d]]

TableRemove(table, ids) ==
    [d \in DOMAIN table \ ids |-> table[d]]

\* table.update(fields, cond): every matching row gets the fields
ApplyFields(row, fields) ==
    [k \in DOMAIN row |-> IF k \in DOMAIN fields THEN fields[k] ELSE row[k]]

TableUpdate(table, ids, fields) ==
    [d \in DOMAIN table |-> IF d \in ids THEN ApplyFields(table[d], fields) ELSE table[d]]

DocsWithFileId(table, file_id) == {d \in DOMAIN table : table[d].file_id = file_id}

IndexGet(idx, key) == IF key \in DOMAIN idx THEN idx[key] ELSE NoDoc
IndexPut(idx, key, val) ==
    [k \in DOMAIN idx \cup {key} |-> IF k = key THEN val ELSE idx[k]]
IndexPop(idx, key) == [k \in DOMAIN idx \ {key} |-> idx[k]]

----------------------------------------------------------------------------
(* TinyDBManager._build_indexes: the full scan of the files table, in doc  *)
(* order, a later row overwriting an earlier one on the same key           *)

RECURSIVE BuildFileIndexFrom(_, _, _)
BuildFileIndexFrom(table, todo, idx) ==
    IF todo = {} THEN idx
    ELSE LET d == CHOOSE m \in todo : \A e \in todo : m <= e
             withId == IndexPut(idx, table[d].file_id, d)
         IN BuildFileIndexFrom(table, todo \ {d},
                               IndexPut(withId, normpath(table[d].file_path), d))

EmptyIndex == [k \in {} |-> NoDoc]

_build_file_index(table) == BuildFileIndexFrom(table, DOMAIN table, EmptyIndex)

----------------------------------------------------------------------------
(* FileModel *)

\* get_file_by_path: the doc id the index gives for the normalized path, if
\* the table still holds that doc
get_file_by_path(fs, idx, file_path) ==
    LET d == IndexGet(idx, normpath(file_path))
    IN IF d # NoDoc /\ d \in DOMAIN fs THEN d ELSE NoDoc

get_file_by_id(fs, idx, file_id) ==
    LET d == IndexGet(idx, file_id)
    IN IF d # NoDoc /\ d \in DOMAIN fs THEN d ELSE NoDoc

NewFileRow(file_id, path, file_hash, last_modified, opt_msg) ==
    [file_id |-> file_id, file_path |-> path, file_hash |-> file_hash,
     last_modified |-> last_modified, pages |-> <<>>, tags |-> {},
     file_desc |-> NoneVal, opt_msg |-> opt_msg]

\* create_file: [err, files, index]
create_file(fs, idx, file_path, file_hash, last_modified, opt_msg) ==
    LET normalized_path == normpath(file_path)
        doc_id == NextDocId(fs)
        file_id == Uuid("file", doc_id)
    IN IF get_file_by_path(fs, idx, normalized_path) # NoDoc
       THEN [err |-> "ValueError", files |-> fs, index |-> idx]
       ELSE [err |-> "none",
             files |-> TableInsert(fs, doc_id,
                          NewFileRow(file_id, normalized_path, file_hash,
                                     last_modified, opt_msg)),
             index |-> IndexPut(IndexPut(idx, file_id, doc_id), normalized_path, doc_id)]

\* update_file(file_id, **kwargs): kwargs.vals are the keyword arguments that
\* are not None, kwargs.nones the names passed as None
update_file(fs, idx, file_id, kwargs) ==
    LET updates == kwargs.vals IN
    IF DOMAIN updates = {}
    THEN [err |-> "ValueError", files |-> fs, index |-> idx]
    ELSE LET d == get_file_by_id(fs, idx, file_id) IN
         IF d = NoDoc
         THEN [err |-> "RuntimeError", files |-> fs, index |-> idx]
         ELSE LET old_path == fs[d].file_path
                  has_new == "file_path" \in DOMAIN updates
                  idx2 == IF has_new /\ updates.file_path # <<>>
                             /\ updates.file_path # old_path
                          THEN IndexPut(IndexPop(idx, normpath(old_path)),
                                        normpath(updates.file_path), d)
                          ELSE idx
                  updated == DocsWithFileId(fs, file_id)
              IN IF updated = {}
                 THEN [err |-> "RuntimeError", files |-> fs, index |-> idx2]
                 ELSE [err |-> "none",
                       files |-> TableUpdate(fs, updated, updates),
                       index |-> idx2]

delete_file(fs, idx, file_id) ==
    LET d == get_file_by_id(fs, idx, file_id) IN
    IF d = NoDoc
    THEN [err |-> "RuntimeError", files |-> fs, index |-> idx]
    ELSE LET removed == DocsWithFileId(fs, file_id) IN
         IF removed = {}
         THEN [err |-> "RuntimeError", files |-> fs, index |-> idx]
         ELSE [err |-> "none",
               files |-> TableRemove(fs, removed),
               index |-> IndexPop(IndexPop(idx, file_id), normpath(fs[d].file_path))]

----------------------------------------------------------------------------
(* FileModel: pages and change detection *)

\* clean_up_file_pages: files.update({"pages": []}, file_id == ...)
clean_up_file_pages(fs, file_id) ==
    TableUpdate(fs, DocsWithFileId(fs, file_id), [pages |-> <<>>])

\* add_pages: the new page records are appended to the pages the row holds
add_pages(fs, file_id, page_data_list) ==
    LET found == DocsWithFileId(fs, file_id) IN
    IF found = {} THEN fs
    ELSE LET d == CHOOSE m \in found : \A e \in found : m <= e
         IN TableUpdate(fs, {d}, [pages |-> fs[d].pages \o page_data_list])

\* The directory scanned and the path os.path.join gives a PDF in it
FilesDir == <<"files">>
PdfPath(pdf) == FilesDir \o <<pdf>>

\* os.path.exists / os.path.getmtime of a path
PdfAt(dsk, path) == {n \in DOMAIN dsk : normpath(PdfPath(n)) = normpath(path)}
path_exists(dsk, path) == PdfAt(dsk, path) # {}
DiskFile(dsk, path) == dsk[CHOOSE n \in PdfAt(dsk, path) : TRUE]

\* calculate_md5: the hash of the bytes; IOError when open() or read() fails
calculate_md5(dsk, path) == DiskFile(dsk, path).hash
md5_raises(dsk, path) == ~DiskFile(dsk, path).readable

\* abs(last_modified - current_mtime) > 0.001, times in milliseconds
MtimeEps == 1

is_file_changed(fs, idx, dsk, file_path) ==
    LET normalized_path == normpath(file_path) IN
    IF ~path_exists(dsk, normalized_path) THEN TRUE
    ELSE LET d == get_file_by_path(fs, idx, normalized_path) IN
         IF d = NoDoc THEN TRUE
         ELSE LET current_hash == calculate_md5(dsk, normalized_path)
                  current_mtime == DiskFile(dsk, normalized_path).mtime
              IN IF md5_raises(dsk, normalized_path) THEN TRUE
                 ELSE IF fs[d].file_hash # current_hash THEN TRUE
                 ELSE Abs(fs[d].last_modified - current_mtime) > MtimeEps

----------------------------------------------------------------------------
(* PDFExtractor *)

Kw(fields) == [vals |-> fields, nones |-> {}]

\* _update_status(file_id, status): the files table after update_file
update_status(fs, idx, file_id, status) ==
    update_file(fs, idx, file_id, Kw([opt_msg |-> status])).files

\* the page records process_file builds from the rendered image paths; the
\* keys 'property' and 'title' come with the first annotation
PageData(pages_paths) ==
    [i \in 1..Len(pages_paths) |->
        [page_number |-> i, page_path |-> pages_paths[i], abstract |-> NoneVal,
         keywords |-> {}, is_aigc |-> FALSE, property |-> NoneVal, title |-> NoneVal]]

\* _pdf_to_pages on success: page_1.jpg .. page_n.jpg of the PDF's directory
RenderedPaths(np) == [i \in 1..np |-> i]

\* the except branch of process_file
process_file_except(fs, idx, file_id) ==
    LET d == get_file_by_id(fs, idx, file_id)
        opt_status == IF d = NoDoc THEN "unknown" ELSE fs[d].opt_msg
    IN IF opt_status = "pages_updating"
       THEN update_status(fs, idx, file_id, "needs_recovery")
       ELSE fs

\* the update run() queues after process_file returns
ProcessedUpdate(current_hash, current_mtime) ==
    Kw([file_hash |-> current_hash, last_modified |-> current_mtime,
        opt_msg |-> "processed"])

PendingUpdate(file_hash, last_modified) ==
    Kw([file_hash |-> file_hash, last_modified |-> last_modified,
        opt_msg |-> "pending_processing"])

Names == {"a.pdf", "b.pdf"}

\* os.listdir, in a fixed order
RECURSIVE Listing(_)
Listing(S) ==
    IF S = {} THEN <<>>
    ELSE LET n == CHOOSE x \in S : \A y \in S : x = y \/ (x = "a.pdf")
         IN <<n>> \o Listing(S \ {n})

IngIdle == [pc |-> "idle", todo |-> <<>>, cur |-> <<>>, pdf |-> "", is_new |-> FALSE,
            pages_paths |-> <<>>, added |-> FALSE, updates |-> <<>>]
AnnIdle == [pc |-> "idle", tasks |-> <<>>]
HistNone == [runs |-> 0, ann_runs |-> 0, now |-> 0, changes |-> 0, last |-> "none",
             second |-> FALSE,
             wrote |-> FALSE, recovery |-> {}, render_failed |-> {}, reprocessed |-> {},
             cut |-> {}, raised |-> {}, retry |-> {}, calls |-> <<>>,
             abandoned |-> {}]

Idle == ing.pc = "idle" /\ ann.pc = "idle"

Wrote(h) == [h EXCEPT !.wrote = TRUE]

\* run(): the listing of the directory; nothing to do without a PDF
RunStart ==
    /\ Idle
    /\ hist.runs < MaxIngestRuns
    /\ ing' = [IngIdle EXCEPT !.pc = IF DOMAIN disk = {} THEN "done" ELSE "scan",
                              !.todo = Listing(DOMAIN disk)]
    /\ hist' = [hist EXCEPT !.runs = @ + 1, !.second = (hist.last = "ingest"),
                            !.wrote = FALSE, !.recovery = {}, !.render_failed = {},
                            !.reprocessed = {}, !.cut = {}, !.raised = {}]
    /\ UNCHANGED <<store, disk, ann, search, page_dirs, faiss>>

\* run(): one PDF of the listing, up to the call of process_file; a PDF whose
\* hash could not be cached counts as changed, and a failing calculate_md5
\* for a PDF without a row ends the work on that PDF
ScanFile ==
    /\ ing.pc = "scan" /\ ing.todo # <<>>
    /\ LET pdf == Head(ing.todo)
           file_path == PdfPath(pdf)
           cached_hash_is_None == md5_raises(disk, file_path)
       IN IF cached_hash_is_None \/ is_file_changed(files, file_index, disk, file_path)
          THEN LET d0 == get_file_by_path(files, file_index, file_path) IN
               IF d0 = NoDoc /\ md5_raises(disk, file_path)
               THEN /\ ing' = [ing EXCEPT !.todo = Tail(@)]
                    /\ UNCHANGED <<files, file_index, hist>>
               ELSE IF d0 = NoDoc
               THEN LET r == create_file(files, file_index, file_path,
                                         calculate_md5(disk, file_path),
                                         disk[pdf].mtime, "initial")
                        d1 == get_file_by_path(r.files, r.index, file_path)
                        file_id == r.files[d1].file_id
                    IN /\ files' = r.files
                       /\ file_index' = r.index
                       /\ ing' = [ing EXCEPT !.pc = "process", !.cur = file_id, !.pdf = pdf,
                                     !.is_new = TRUE,
                                     !.updates = Append(@, <<file_id,
                                         PendingUpdate(calculate_md5(disk, file_path),
                                                       disk[pdf].mtime)>>)]
                       /\ hist' = Wrote(hist)
               ELSE /\ ing' = [ing EXCEPT !.pc = "process", !.cur = files[d0].file_id,
                                          !.pdf = pdf, !.is_new = FALSE]
                    /\ UNCHANGED <<files, file_index, hist>>
          ELSE /\ ing' = [ing EXCEPT !.todo = Tail(@)]
               /\ UNCHANGED <<files, file_index, hist>>
    /\ UNCHANGED <<contents, content_index, disk, ann, search, page_dirs, faiss>>

\* process_file: the status becomes 'initial'
ProcessInitial ==
    /\ ing.pc = "process"
    /\ LET d == get_file_by_id(files, file_index, ing.cur)
           status == IF files[d].opt_msg # "initial" THEN "initial" ELSE files[d].opt_msg
       IN files' = update_status(files, file_index, ing.cur, status)
    /\ ing' = [ing EXCEPT !.pc = "initial_set"]
    /\ hist' = [Wrote(hist) EXCEPT !.reprocessed = @ \cup {ing.cur}]
    /\ UNCHANGED <<file_index, contents, content_index, disk, ann, search, page_dirs, faiss>>

\* process_file: the store raises in the first _update_status, nothing is
\* committed and the except branch runs
ProcessInitialRaises ==
    /\ ing.pc = "process"
    /\ files' = process_file_except(files, file_index, ing.cur)
    /\ ing' = [ing EXCEPT !.pc = "returned"]
    /\ hist' = [hist EXCEPT !.reprocessed = @ \cup {ing.cur},
                            !.raised = @ \cup {ing.cur},
                            !.wrote = @ \/ files' # files]
    /\ UNCHANGED <<file_index, contents, content_index, disk, ann, search, page_dirs, faiss>>

\* process_file: the status becomes 'pages_updating'
ProcessPagesUpdating ==
    /\ ing.pc = "initial_set"
    /\ files' = update_status(files, file_index, ing.cur, "pages_updating")
    /\ ing' = [ing EXCEPT !.pc = "cleanup"]
    /\ hist' = Wrote(hist)
    /\ UNCHANGED <<file_index, contents, content_index, disk, ann, search, page_dirs, faiss>>

\* process_file with the cleanup done although the status was not written
pages_updating_raises_cleaned(fs, idx, dirs, file_id, pdf) ==
    [files |-> clean_up_file_pages(process_file_except(fs, idx, file_id), file_id),
     page_dirs |-> dirs \ {pdf}]

\* process_file: update_file raises in _update_status(file_id,
\* "pages_updating"); the except branch runs, _cleanup_invalid_pages is not
\* reached
pages_updating_raises(fs, idx, dirs, file_id, pdf) ==
    [files |-> process_file_except(fs, idx, file_id), page_dirs |-> dirs]

ProcessPagesUpdatingRaises ==
    /\ ing.pc = "initial_set"
    /\ \E r \in {pages_updating_raises(files, file_index, page_dirs, ing.cur, ing.pdf)} :
          /\ files' = r.files
          /\ page_dirs' = r.page_dirs
    /\ ing' = [ing EXCEPT !.pc = "returned"]
    /\ hist' = [hist EXCEPT !.raised = @ \cup {ing.cur},
                            !.wrote = @ \/ files' # files]
    /\ UNCHANGED <<file_index, contents, content_index, disk, ann, search, faiss>>

\* shutil.rmtree of the page directory of a PDF
rmtree(dirs, pdf) == dirs \ {pdf}

\* _cleanup_invalid_pages: the page records are emptied and the directory of
\* the page images is removed, or the store update raises and the exception
\* is logged and dropped
CleanupOutcomes == {"ok", "raises"}

ProcessCleanup(outcome) ==
    /\ ing.pc = "cleanup"
    /\ files' = IF outcome = "ok" THEN clean_up_file_pages(files, ing.cur) ELSE files
    /\ page_dirs' = IF outcome = "ok" THEN rmtree(page_dirs, ing.pdf) ELSE page_dirs
    /\ ing' = [ing EXCEPT !.pc = "render"]
    /\ hist' = Wrote(hist)
    /\ UNCHANGED <<file_index, contents, content_index, disk, ann, search, faiss>>

\* _pdf_to_pages: every page rendered (of a PDF that can be read); or a
\* failure inside its try block, answered with [] (after pages of a readable
\* PDF were written the directory is removed, a PDF that cannot be opened
\* leaves it as it is); or an exception outside it (os.makedirs, doc.close),
\* which process_file's except branch handles
RenderOutcomes == {"ok", "fails", "raises"}

ProcessRender(outcome) ==
    /\ ing.pc = "render"
    /\ outcome = "ok" => disk[ing.pdf].readable
    /\ IF outcome = "raises"
       THEN /\ files' = process_file_except(files, file_index, ing.cur)
            /\ ing' = [ing EXCEPT !.pc = "returned"]
            /\ hist' = [Wrote(hist) EXCEPT !.recovery =
                           IF files[get_file_by_id(files, file_index, ing.cur)].opt_msg
                                  = "pages_updating"
                           THEN @ \cup {ing.cur} ELSE @,
                                           !.raised = @ \cup {ing.cur}]
       ELSE /\ ing' = [ing EXCEPT !.pc = "add_pages",
                          !.pages_paths = IF outcome = "ok"
                                          THEN RenderedPaths(disk[ing.pdf].np) ELSE <<>>]
            /\ hist' = [Wrote(hist) EXCEPT !.render_failed =
                           IF outcome = "fails" /\ ~ing.is_new
                           THEN @ \cup {ing.cur} ELSE @]
            /\ UNCHANGED files
    /\ page_dirs' = CASE outcome = "ok" -> page_dirs \cup {ing.pdf}
                      [] outcome = "fails" /\ disk[ing.pdf].readable ->
                             rmtree(page_dirs, ing.pdf)
                      [] OTHER -> page_dirs
    /\ UNCHANGED <<file_index, contents, content_index, disk, ann, search, faiss>>

\* add_pages answers True after the write, False when the store raises or
\* the row is not found; process_file keeps the answer for its log line only
AddOutcomes == {"ok", "raises"}

ProcessAddPages(outcome) ==
    /\ ing.pc = "add_pages"
    /\ files' = IF outcome = "ok"
                THEN add_pages(files, ing.cur, PageData(ing.pages_paths))
                ELSE files
    /\ ing' = [ing EXCEPT !.pc = "complete",
                          !.added = outcome = "ok" /\ DocsWithFileId(files, ing.cur) # {}]
    /\ hist' = Wrote(hist)
    /\ UNCHANGED <<file_index, contents, content_index, disk, ann, search, page_dirs, faiss>>

ProcessCompleted ==
    /\ ing.pc = "complete"
    /\ files' = update_status(files, file_index, ing.cur, "completed")
    /\ ing' = [ing EXCEPT !.pc = "returned"]
    /\ hist' = Wrote(hist)
    /\ UNCHANGED <<file_index, contents, content_index, disk, ann, search, page_dirs, faiss>>

\* run(): process_file has returned; the 'processed' update is queued with
\* the hash and mtime read again, unless calculate_md5 raises
AfterProcess ==
    /\ ing.pc = "returned"
    /\ LET current_hash == calculate_md5(disk, PdfPath(ing.pdf))
           current_mtime == disk[ing.pdf].mtime
       IN ing' = [ing EXCEPT !.pc = "scan", !.todo = Tail(@), !.pages_paths = <<>>,
                     !.added = FALSE,
                     !.updates = IF md5_raises(disk, PdfPath(ing.pdf)) THEN @
                                 ELSE Append(@, <<ing.cur,
                                         ProcessedUpdate(current_hash, current_mtime)>>)]
    /\ UNCHANGED <<store, disk, ann, hist, search, page_dirs, faiss>>

\* run(): the batch of queued updates, one update_file call each
BatchUpdate ==
    /\ ing.pc = "scan" /\ ing.todo = <<>> /\ ing.updates # <<>>
    /\ LET u == Head(ing.updates)
           r == update_file(files, file_index, u[1], u[2])
       IN /\ files' = r.files
          /\ file_index' = r.index
    /\ ing' = [ing EXCEPT !.updates = Tail(@)]
    /\ hist' = Wrote(hist)
    /\ UNCHANGED <<contents, content_index, disk, ann, search, page_dirs, faiss>>

RunReturns ==
    /\ ing.pc = "scan" /\ ing.todo = <<>> /\ ing.updates = <<>>
    /\ ing' = [ing EXCEPT !.pc = "done", !.cur = <<>>, !.pdf = "", !.is_new = FALSE]
    /\ UNCHANGED <<store, disk, ann, hist, search, page_dirs, faiss>>

RunDone ==
    /\ ing.pc = "done"
    /\ ing' = IngIdle
    /\ hist' = [hist EXCEPT !.last = "ingest", !.second = FALSE, !.wrote = FALSE,
                            !.recovery = {}, !.render_failed = {}, !.reprocessed = {},
                            !.raised = {}, !.retry = hist.raised]
    /\ UNCHANGED <<store, disk, ann, search, page_dirs, faiss>>

----------------------------------------------------------------------------
(* The PDFs of FILES_DIR change between runs *)

ClockStep == 2     \* milliseconds between two writes of a PDF

AddPdf(n, np) ==
    /\ Idle
    /\ n \notin DOMAIN disk
    /\ disk' = [m \in DOMAIN disk \cup {n} |->
                   IF m = n THEN [hash |-> 1, mtime |-> 0, np |-> np, readable |-> TRUE]
                   ELSE disk[m]]
    /\ hist' = [hist EXCEPT !.last = "other"]
    /\ UNCHANGED <<store, ing, ann, search, page_dirs, faiss>>

EditPdf(n, np) ==
    /\ Idle
    /\ n \in DOMAIN disk
    /\ hist.changes < MaxDiskChanges
    /\ disk' = [disk EXCEPT ![n] = [hash |-> @.hash + 1, mtime |-> @.mtime + ClockStep,
                                    np |-> np, readable |-> TRUE]]
    /\ hist' = [hist EXCEPT !.last = "other", !.changes = @ + 1]
    /\ UNCHANGED <<store, ing, ann, search, page_dirs, faiss>>

TouchPdf(n) ==
    /\ Idle
    /\ n \in DOMAIN disk
    /\ hist.changes < MaxDiskChanges
    /\ disk' = [disk EXCEPT ![n].mtime = @ + ClockStep]
    /\ hist' = [hist EXCEPT !.last = "other", !.changes = @ + 1]
    /\ UNCHANGED <<store, ing, ann, search, page_dirs, faiss>>

\* the PDF can no longer be opened for reading (its permission bits changed)
LockPdf(n) ==
    /\ Idle
    /\ n \in DOMAIN disk
    /\ disk[n].readable
    /\ hist.changes < MaxDiskChanges
    /\ disk' = [disk EXCEPT ![n].readable = FALSE]
    /\ hist' = [hist EXCEPT !.last = "other", !.changes = @ + 1]
    /\ UNCHANGED <<store, ing, ann, search, page_dirs, faiss>>

\* the PDF is deleted from FILES_DIR
RemovePdf(n) ==
    /\ Idle
    /\ n \in DOMAIN disk
    /\ hist.changes < MaxDiskChanges
    /\ disk' = [m \in DOMAIN disk \ {n} |-> disk[m]]
    /\ hist' = [hist EXCEPT !.last = "other", !.changes = @ + 1]
    /\ UNCHANGED <<store, ing, ann, search, page_dirs, faiss>>
----------------------------------------------------------------------------
(* ContentModel *)

NewContentRow(page_id, file_id, page_number, data, now) ==
    [page_id |-> page_id, file_id |-> file_id, page_number |-> page_number,
     title |-> data.title, property |-> data.property, abstract |-> data.abstract,
     keywords |-> data.keywords, created_at |-> now, updated_at |-> now]

\* create_content: [contents, index]
create_content(cs, cidx, file_id, page_number, data, now) ==
    LET doc_id == NextDocId(cs)
        page_id == Uuid("page", doc_id)
        of_file == IF file_id \in DOMAIN cidx THEN cidx[file_id] ELSE {}
    IN [contents |-> TableInsert(cs, doc_id,
                        NewContentRow(page_id, file_id, page_number, data, now)),
        index |-> IndexPut(IndexPut(cidx, page_id, doc_id), file_id, of_file \cup {doc_id})]

\* update_content: only the allowed fields of update_data are written; the
\* caller passes the category under the key 'prop', which is not one of them
AllowedFields == {"content", "keywords", "updated_at", "title", "property", "abstract"}

update_content(cs, page_id, update_data, now) ==
    LET allowed == [k \in DOMAIN update_data \cap AllowedFields |-> update_data[k]]
        fields == [k \in DOMAIN allowed \cup {"updated_at"} |->
                      IF k = "updated_at" THEN now ELSE allowed[k]]
    IN TableUpdate(cs, {d \in DOMAIN cs : cs[d].page_id = page_id}, fields)

\* the lookup of the existing row left out
ExistingContentNone(cs, file_id, page_number) == NoDoc

\* contents.get((file_id == ...) & (page_number == ...)): the first match
ExistingContent(cs, file_id, page_number) ==
    LET found == {d \in DOMAIN cs : cs[d].file_id = file_id
                                    /\ cs[d].page_number = page_number}
    IN IF found = {} THEN NoDoc ELSE CHOOSE m \in found : \A e \in found : m <= e

----------------------------------------------------------------------------
(* IMGRecognizer *)

\* what the annotate service can answer for a page image
AiData ==
    {[title |-> "t1", property |-> "report", abstract |-> "a1", keywords |-> {"k1"}],
     [title |-> "t2", property |-> "news", abstract |-> "a2", keywords |-> {"k1", "k2"}]}

EmptyAiData == [title |-> "", property |-> "", abstract |-> "", keywords |-> {}]

ServiceOutcomes ==
    {[kind |-> "json", data |-> x] : x \in AiData}
    \cup {[kind |-> k, data |-> EmptyAiData] : k \in {"timeout", "http_429", "http_400"}}

TransientKinds == {"timeout", "http_429"}

\* process_page: an exception of the client is caught and answered with the
\* text '[Processing failed P<n>]'
process_page(outcome) ==
    IF outcome.kind = "json"
    THEN [text |-> "json", data |-> outcome.data]
    ELSE [text |-> "[Processing failed", data |-> EmptyAiData]

\* _parse_ai_response: {} for the failure text and for text that is no JSON
_parse_ai_response(ai_response) ==
    IF ai_response.text = "json" THEN ai_response.data ELSE EmptyAiData

\* the message of the exception _process_page_with_retry catches, in words
AttemptError(ai_response, ai_data) ==
    IF ai_response.text = "" THEN <<"Empty", "AI", "response">>
    ELSE IF ai_data = EmptyAiData THEN <<"Failed", "to", "parse", "AI", "response">>
    ELSE <<>>

\* "429" in str(e)
Has429(message) == \E i \in DOMAIN message : message[i] = "429"

\* the aggregates _update_models recomputes from the re-read file record
FileTags(pages) == UNION {pages[i].keywords \ {""} : i \in DOMAIN pages}

RECURSIVE SortedByNumber(_)
SortedByNumber(pages) ==
    IF pages = <<>> THEN <<>>
    ELSE LET i == CHOOSE j \in DOMAIN pages :
                    \A k \in DOMAIN pages :
                        \/ pages[j].page_number < pages[k].page_number
                        \/ (pages[j].page_number = pages[k].page_number /\ j <= k)
             rest == [k \in 1..(Len(pages) - 1) |-> IF k < i THEN pages[k] ELSE pages[k + 1]]
         IN <<pages[i]>> \o SortedByNumber(rest)

IsAbstract(a) == a # NoneVal /\ a # ""

FileDesc(pages) ==
    LET sorted == SortedByNumber(pages)
    IN SelectSeq([i \in DOMAIN sorted |-> sorted[i].abstract], IsAbstract)

\* the aggregates recomputed from the record read before the write
AggregateSourceStale(before, after) == before

\* the record the aggregates are recomputed from: the file read again after
\* the pages were written
AggregateSource(before, after) == after

\* a comparison that takes every page of the file for the annotated one
is_page_any(p, page_number) == TRUE

\* if p["page_number"] == page_number
is_page(p, page_number) == p.page_number = page_number

\* _update_models, its three store writes in order; writes = 3 is the whole
\* call, writes < 3 a process that stops after that many
\* [raised, files, contents, index]
_update_models(fs, idx, cs, cidx, page, ai_data, now, writes) ==
    LET d == get_file_by_id(fs, idx, page.file_id)
        unchanged == [files |-> fs, contents |-> cs, index |-> cidx]
    IN IF d = NoDoc
       THEN [raised |-> TRUE] @@ unchanged
       ELSE LET old == fs[d].pages
                updated_pages ==
                    [i \in DOMAIN old |->
                        IF is_page(old[i], page.page_number)
                        THEN [old[i] EXCEPT !.is_aigc = TRUE,
                                            !.property = ai_data.property,
                                            !.title = ai_data.title,
                                            !.abstract = ai_data.abstract,
                                            !.keywords = ai_data.keywords]
                        ELSE old[i]]
                page_found == \E i \in DOMAIN old : is_page(old[i], page.page_number)
                docs == DocsWithFileId(fs, page.file_id)
                fs1 == TableUpdate(fs, docs, [pages |-> updated_pages])
                src == AggregateSource(old, fs1[d].pages)
                fs2 == TableUpdate(fs1, docs,
                           [tags |-> FileTags(src), file_desc |-> FileDesc(src)])
                existing == ExistingContent(cs, page.file_id, page.page_number)
                created == create_content(cs, cidx, page.file_id, page.page_number,
                                          ai_data, now)
            IN IF ~page_found THEN [raised |-> TRUE] @@ unchanged
               ELSE IF writes = 1
               THEN [raised |-> FALSE, files |-> fs1, contents |-> cs, index |-> cidx]
               ELSE IF writes = 2 \/ ai_data = EmptyAiData
               THEN [raised |-> FALSE, files |-> fs2, contents |-> cs, index |-> cidx]
               ELSE IF existing # NoDoc
               THEN [raised |-> FALSE, files |-> fs2,
                     contents |-> update_content(cs, cs[existing].page_id,
                                     [title |-> ai_data.title, prop |-> ai_data.property,
                                      abstract |-> ai_data.abstract,
                                      keywords |-> ai_data.keywords], now),
                     index |-> cidx]
               ELSE [raised |-> FALSE, files |-> fs2, contents |-> created.contents,
                     index |-> created.index]

\* _get_unidentified flattened as image_understanding does: one entry for
\* every page record with is_aigc False, file by file
RECURSIVE PendingPages(_, _)
PendingPages(fs, todo) ==
    IF todo = {} THEN <<>>
    ELSE LET d == CHOOSE m \in todo : \A e \in todo : m <= e
             pending == SelectSeq(fs[d].pages, LAMBDA p : p.is_aigc = FALSE)
         IN [i \in DOMAIN pending |->
                [file_id |-> fs[d].file_id, page_number |-> pending[i].page_number,
                 page_path |-> pending[i].page_path]]
            \o PendingPages(fs, todo \ {d})

\* a listing of the pages that takes the annotated ones as well
_get_unidentified_all(fs) ==
    PendingPages([d \in DOMAIN fs |->
                     [fs[d] EXCEPT !.pages = [i \in DOMAIN @ |-> [@[i] EXCEPT !.is_aigc = FALSE]]]],
                 DOMAIN fs)

_get_unidentified(fs) == PendingPages(fs, DOMAIN fs)

Permits == 2        \* asyncio.Semaphore(2)
max_retries == 3

NewTask(page) ==
    [page |-> page, pc |-> "waiting", attempt |-> 0, ok |-> FALSE,
     only_transient |-> TRUE]

\* a permit that is not given back when the task ends with a failure
Holding_kept_on_failure(tasks) ==
    {t \in DOMAIN tasks : tasks[t].pc = "calling" \/ (tasks[t].pc = "done" /\ ~tasks[t].ok)}

\* async with semaphore: the permit is held from the entry of the block to
\* its exit, whichever way the block is left
Holding(tasks) == {t \in DOMAIN tasks : tasks[t].pc = "calling"}

\* a semaphore whose counter is never taken down
semaphore_value_untaken(tasks) == Permits

\* asyncio.Semaphore._value: the permits not held by a task
semaphore_value(tasks) == Permits - Cardinality(Holding(tasks))

\* a retry loop with one attempt more
last_attempt_late(attempt) == attempt = max_retries

\* attempt == max_retries - 1, for attempt in range(max_retries)
last_attempt(attempt) == attempt = max_retries - 1

\* image_understanding: a task per pending page; nothing to do without one
AnnStart ==
    /\ Idle
    /\ hist.ann_runs < MaxAnnRuns
    /\ LET all_pages == _get_unidentified(files)
       IN ann' = [pc |-> IF all_pages = <<>> THEN "done" ELSE "running",
                  tasks |-> [i \in DOMAIN all_pages |-> NewTask(all_pages[i])]]
    /\ hist' = [hist EXCEPT !.ann_runs = @ + 1, !.now = @ + 1,
                            !.calls = [i \in DOMAIN _get_unidentified(files) |-> 0],
                            !.abandoned = {}]
    /\ UNCHANGED <<store, disk, ing, search, page_dirs, faiss>>

\* the pages of the tasks that wait for an answer of the service, those of
\* the tasks in `but` left out
InFlight(tasks, but) ==
    {tasks[t].page : t \in {u \in DOMAIN tasks \ but : tasks[u].pc = "calling"}}

\* async with semaphore: a free permit, handed out in the order of arrival
TaskAcquire(t) ==
    /\ ann.pc = "running"
    /\ ann.tasks[t].pc = "waiting"
    /\ semaphore_value(ann.tasks) > 0
    /\ \A u \in 1..(t - 1) : ann.tasks[u].pc # "waiting"
    /\ ann' = [ann EXCEPT !.tasks[t].pc = "calling"]
    /\ UNCHANGED <<store, disk, ing, hist, search, page_dirs, faiss>>

\* one attempt of _process_page_with_retry, from the answer of the service
\* to the end of the task or, through the sleep, to the next call of the
\* service; hist.calls counts the answered calls of each task of the run; writes < 3: the process stops inside _update_models after that
\* many store writes
TaskAttempt(t, outcome, writes) ==
    /\ ann.pc = "running"
    /\ ann.tasks[t].pc = "calling"
    /\ LET task == ann.tasks[t]
           ai_response == process_page(outcome)
           ai_data == _parse_ai_response(ai_response)
           e == AttemptError(ai_response, ai_data)
           last == last_attempt(task.attempt)
           seen == [task EXCEPT
                       !.only_transient = @ /\ outcome.kind \in TransientKinds]
           nothing == [raised |-> FALSE, files |-> files, contents |-> contents,
                       index |-> content_index]
       IN \E good \in {IF e = <<>>
                        THEN _update_models(files, file_index, contents, content_index,
                                            task.page, ai_data, hist.now, writes)
                        ELSE nothing} :
          LET failed == e # <<>> \/ good.raised
              message == IF e # <<>> THEN e ELSE <<"Page", "not", "found", "in", "file">>
              marks == failed /\ last /\ ~Has429(message)
          IN \E r \in {IF ~failed THEN good
                        ELSE IF marks
                        THEN _update_models(files, file_index, contents, content_index,
                                            task.page, EmptyAiData, hist.now, writes)
                        ELSE nothing} :
             /\ (writes < 3) => ((~failed \/ marks) /\ ~r.raised)
             /\ files' = r.files
             /\ contents' = r.contents
             /\ content_index' = r.index
             /\ IF writes < 3
                THEN /\ ann' = AnnIdle
                     /\ hist' = [hist EXCEPT !.last = "other", !.calls = <<>>,
                                    !.cut = IF writes = 1 THEN {task.page} ELSE {},
                                    !.abandoned = InFlight(ann.tasks, {t})]
                ELSE /\ ann' = [ann EXCEPT !.tasks[t] =
                                   IF ~failed THEN [task EXCEPT !.pc = "done", !.ok = TRUE]
                                   ELSE IF last THEN [seen EXCEPT !.pc = "done"]
                                   ELSE [seen EXCEPT !.attempt = @ + 1]]
                     /\ hist' = [hist EXCEPT !.calls[t] = @ + 1]
    /\ UNCHANGED <<file_index, disk, ing, search, page_dirs, faiss>>

\* asyncio.gather has every result
AnnReturns ==
    /\ ann.pc = "running"
    /\ \A t \in DOMAIN ann.tasks : ann.tasks[t].pc = "done"
    /\ ann' = [ann EXCEPT !.pc = "done"]
    /\ UNCHANGED <<store, disk, ing, hist, search, page_dirs, faiss>>

AnnDone ==
    /\ ann.pc = "done"
    /\ ann' = AnnIdle
    /\ hist' = [hist EXCEPT !.last = "other", !.cut = {}, !.calls = <<>>]
    /\ UNCHANGED <<store, disk, ing, search, page_dirs, faiss>>

\* the process stops while tasks wait for the service or sleep
AnnStop ==
    /\ ann.pc = "running"
    /\ ann' = AnnIdle
    /\ hist' = [hist EXCEPT !.last = "other", !.cut = {}, !.calls = <<>>,
                            !.abandoned = InFlight(ann.tasks, {})]
    /\ UNCHANGED <<store, disk, ing, search, page_dirs, faiss>>

----------------------------------------------------------------------------
(* agents.py: text. A str is the sequence of its characters.               *)

NoSearch == [fn |-> "none", pc |-> "none"]

\* a Document that writes through to the stored row
document_setitem_stored(table, ids, key) ==
    [d \in DOMAIN table |->
        IF d \in ids
        THEN [k \in DOMAIN table[d] \cup {key} |-> IF k = key THEN "set" ELSE table[d][k]]
        ELSE table[d]]

\* doc[key] = value on Documents a read has handed out: each read builds
\* its Documents from the storage again, the stored rows stay as they are
document_setitem(table, ids, key) == table

\* str.lower, one character
LowerOf(c) == CASE c = "A" -> "a" [] c = "B" -> "b" [] c = "T" -> "t" [] OTHER -> c

lower(s) == [i \in DOMAIN s |-> LowerOf(s[i])]

IsSpace(c) == c = " "

RECURSIVE lstrip(_)
lstrip(s) == IF Len(s) > 0 /\ IsSpace(s[1]) THEN lstrip(Tail(s)) ELSE s

RECURSIVE rstrip(_)
rstrip(s) ==
    IF Len(s) > 0 /\ IsSpace(s[Len(s)]) THEN rstrip(SubSeq(s, 1, Len(s) - 1)) ELSE s

\* str.strip
strip(s) == rstrip(lstrip(s))

\* `sub in s`
Contains(s, sub) ==
    \E i \in 0..(Len(s) - Len(sub)) : SubSeq(s, i + 1, i + Len(sub)) = sub

----------------------------------------------------------------------------
(* BaseRetriever: the filters                                              *)

\* a comparison of the cleaned keywords that keeps their case
keyword_found_exact(query_kw, target_keywords) ==
    \E i \in DOMAIN target_keywords : strip(query_kw) = strip(target_keywords[i])

\* _match_keywords, the inner loop: one criterion keyword against the target's
keyword_found(query_kw, target_keywords) ==
    LET clean_query == strip(query_kw) IN
    \E i \in DOMAIN target_keywords :
        LET clean_target == strip(target_keywords[i]) IN
        clean_query = clean_target \/ lower(clean_query) = lower(clean_target)

_match_keywords(target_keywords, criteria) ==
    IF criteria.keywords = <<>>
    THEN [ok |-> TRUE, matched |-> <<>>]
    ELSE LET found(q) == keyword_found(q, target_keywords)
             matched_keywords == SelectSeq(criteria.keywords, found)
         IN IF criteria.match_logic = "AND"
                /\ \E i \in DOMAIN criteria.keywords : ~found(criteria.keywords[i])
            THEN [ok |-> FALSE, matched |-> <<>>]
            ELSE IF criteria.match_logic = "OR" /\ matched_keywords = <<>>
            THEN [ok |-> FALSE, matched |-> <<>>]
            ELSE [ok |-> TRUE, matched |-> matched_keywords]

\* _match_text: case-insensitive containment; an empty search text matches
_match_text(target_text, search_text) ==
    IF strip(search_text) # <<>>
    THEN Contains(lower(target_text), lower(strip(search_text)))
    ELSE TRUE

----------------------------------------------------------------------------
(* agents.py: dates. A Python value carries its type; a datetime is its    *)
(* calendar date, its hour and whether it has a UTC offset.                *)

PyNone == [type |-> "NoneType"]
PyStr(s) == [type |-> "str", v |-> s]
PyDatetime(dt) == [type |-> "datetime", v |-> dt]

datetime(y, m, d, h, aware) == [y |-> y, m |-> m, d |-> d, h |-> h, aware |-> aware]

\* datetime.min
datetime_min == datetime(1, 1, 1, 0, FALSE)

\* datetime.date()
date(dt) == [y |-> dt.y, m |-> dt.m, d |-> dt.d]

\* a <= b on dates
date_before_or_same(a, b) ==
    \/ a.y < b.y
    \/ a.y = b.y /\ a.m < b.m
    \/ a.y = b.y /\ a.m = b.m /\ a.d <= b.d

\* a < b on dates
date_before(a, b) ==
    \/ a.y < b.y
    \/ a.y = b.y /\ a.m < b.m
    \/ a.y = b.y /\ a.m = b.m /\ a.d < b.d

Digits == <<"0", "1", "2", "3", "4", "5", "6", "7", "8", "9">>

IsDigit(c) == \E i \in DOMAIN Digits : Digits[i] = c

DigitVal(c) == (CHOOSE i \in DOMAIN Digits : Digits[i] = c) - 1

AllDigits(s) == \A i \in DOMAIN s : IsDigit(s[i])

\* int() of a string of digits
RECURSIVE int(_)
int(s) == IF Len(s) = 0 THEN 0 ELSE 10 * int(SubSeq(s, 1, Len(s) - 1)) + DigitVal(s[Len(s)])

IsLeap(y) == (y % 4 = 0 /\ y % 100 # 0) \/ y % 400 = 0

DaysInMonth(y, m) ==
    IF m = 2 THEN (IF IsLeap(y) THEN 29 ELSE 28)
    ELSE IF m \in {4, 6, 9, 11} THEN 30 ELSE 31

ValidDate(y, m, d) == y \in 1..9999 /\ m \in 1..12 /\ d \in 1..DaysInMonth(y, m)

\* the outcome of a parse: a datetime, or ValueError raised
Parsed(dt) == [raised |-> FALSE, value |-> dt]
ValueError == [raised |-> TRUE, value |-> datetime_min]

\* "YYYY-MM-DD" at the head of s, with the hour h
DateAt(s, h, aware) ==
    IF /\ Len(s) >= 10 /\ s[5] = "-" /\ s[8] = "-"
       /\ AllDigits(SubSeq(s, 1, 4)) /\ AllDigits(SubSeq(s, 6, 7))
       /\ AllDigits(SubSeq(s, 9, 10))
       /\ ValidDate(int(SubSeq(s, 1, 4)), int(SubSeq(s, 6, 7)), int(SubSeq(s, 9, 10)))
       /\ h \in 0..23
    THEN Parsed(datetime(int(SubSeq(s, 1, 4)), int(SubSeq(s, 6, 7)),
                         int(SubSeq(s, 9, 10)), h, aware))
    ELSE ValueError

\* "HH" or "HH:MM" from position 12 of s: the hour, or 24 when malformed
HourAt(s, last) ==
    IF /\ AllDigits(SubSeq(s, 12, 13))
       /\ (last = 16 => s[14] = ":" /\ AllDigits(SubSeq(s, 15, 16))
                          /\ int(SubSeq(s, 15, 16)) \in 0..59)
    THEN int(SubSeq(s, 12, 13))
    ELSE 24

\* datetime.strptime(s, "%Y-%m-%d") for a string of ten characters
strptime(s) == IF Len(s) = 10 THEN DateAt(s, 0, FALSE) ELSE ValueError

\* datetime.fromisoformat (Python 3.11) for the forms YYYYMMDD, YYYY-MM-DD,
\* YYYY-MM-DD?HH, YYYY-MM-DD?HH:MM and YYYY-MM-DD?HH:MM+00:00, where ? is any
\* one character
fromisoformat(s) ==
    CASE Len(s) = 8 ->
           IF AllDigits(s) /\ ValidDate(int(SubSeq(s, 1, 4)), int(SubSeq(s, 5, 6)),
                                        int(SubSeq(s, 7, 8)))
           THEN Parsed(datetime(int(SubSeq(s, 1, 4)), int(SubSeq(s, 5, 6)),
                                int(SubSeq(s, 7, 8)), 0, FALSE))
           ELSE ValueError
      [] Len(s) = 10 -> DateAt(s, 0, FALSE)
      [] Len(s) = 13 -> DateAt(s, HourAt(s, 13), FALSE)
      [] Len(s) = 16 -> DateAt(s, HourAt(s, 16), FALSE)
      [] Len(s) = 22 ->
           IF SubSeq(s, 17, 22) = <<"+", "0", "0", ":", "0", "0">>
           THEN DateAt(s, HourAt(s, 16), TRUE)
           ELSE ValueError
      [] OTHER -> ValueError

\* _match_date: the target's date within the optional inclusive bounds
_match_date(target_date, criteria) ==
    LET parse == IF target_date.type # "str" THEN ValueError
                 ELSE IF Contains(target_date.v, <<"T">>) THEN fromisoformat(target_date.v)
                 ELSE IF Len(target_date.v) = 10 THEN strptime(target_date.v)
                 ELSE fromisoformat(target_date.v)
    IN IF target_date.type = "str" /\ parse.raised
       THEN FALSE
       ELSE LET dt == IF target_date.type = "str" THEN PyDatetime(parse.value)
                      ELSE target_date
            IN IF dt.type # "datetime"
               THEN FALSE
               ELSE IF criteria.start_date.type = "datetime"
                       /\ date_before(date(dt.v), date(criteria.start_date.v))
               THEN FALSE
               ELSE IF criteria.end_date.type = "datetime"
                       /\ date_before(date(criteria.end_date.v), date(dt.v))
               THEN FALSE
               ELSE TRUE

----------------------------------------------------------------------------
(* FileRetriever.run and ContentRetriever.run                              *)

\* the rows of a table by ascending doc_id (Table.all)
RECURSIVE AllRows(_, _)
AllRows(table, ids) ==
    IF ids = {}
    THEN <<>>
    ELSE LET d == CHOOSE x \in ids : \A y \in ids : x <= y
         IN <<table[d]>> \o AllRows(table, ids \ {d})

get_all_files(table) == AllRows(table, DOMAIN table)

\* the outcome of a call that was refused or that raised
EmptyOutcome(idx) ==
    [results |-> <<>>, current_page |-> idx, total_pages |-> 0, total_matches |-> 0]

\* the filters of one row: the date of the file, its publisher, its title,
\* the keywords and the text; the text filter of a row without text raises
Filter(published_date, publisher, title, keywords, text, criteria) ==
    LET dated == criteria.start_date.type = "datetime"
                 \/ criteria.end_date.type = "datetime"
        kw == IF criteria.keywords # <<>>
              THEN _match_keywords(keywords, criteria)
              ELSE [ok |-> TRUE, matched |-> <<>>]
        no == [keep |-> FALSE, raised |-> FALSE, matched |-> <<>>]
    IN IF dated /\ ~_match_date(published_date, criteria) THEN no
       ELSE IF criteria.publisher # <<>> /\ ~_match_text(publisher, criteria.publisher)
       THEN no
       ELSE IF criteria.title # <<>> /\ ~_match_text(title, criteria.title) THEN no
       ELSE IF ~kw.ok THEN no
       ELSE IF criteria.content # <<>> /\ strip(criteria.content) # <<>>
               /\ text.type # "str"
       THEN [keep |-> FALSE, raised |-> TRUE, matched |-> <<>>]
       ELSE IF criteria.content # <<>> /\ ~_match_text(text.v, criteria.content) THEN no
       ELSE [keep |-> TRUE, raised |-> FALSE, matched |-> kw.matched]

\* a status test that lets the files through that process_file has finished
processed_or_completed(file) == file.opt_msg \in {"processed", "completed"}

\* file.get("opt_msg") != "processed": continue
processed(file) == file.opt_msg = "processed"

\* FileRetriever.run, the loop over the files: [raised, results]
RECURSIVE FileResults(_, _)
FileResults(rows, criteria) ==
    IF rows = <<>>
    THEN [raised |-> FALSE, results |-> <<>>]
    ELSE LET file == Head(rows)
             rest == FileResults(Tail(rows), criteria)
             f == Filter(file.published_date, file.source, file.file_name, file.tags,
                         file.file_desc, criteria)
         IN IF ~processed(file) THEN rest
            ELSE IF f.raised THEN [raised |-> TRUE, results |-> <<>>]
            ELSE IF ~f.keep THEN rest
            ELSE [rest EXCEPT !.results =
                     <<[file_name |-> file.file_name, content |-> file.file_desc,
                        published_by |-> file.source,
                        published_date |-> file.published_date,
                        matched_keywords |-> f.matched]>> \o @]

\* ContentRetriever.run, the loop over the contents: [raised, results]
RECURSIVE ContentResults(_, _, _)
ContentResults(rows, file_table, criteria) ==
    IF rows = <<>>
    THEN [raised |-> FALSE, results |-> <<>>]
    ELSE LET content == Head(rows)
             rest == ContentResults(Tail(rows), file_table, criteria)
             known == {d \in DOMAIN file_table :
                           file_table[d].file_id = content.file_id}
         IN IF content.property # "main" \/ known = {} THEN rest
            ELSE LET file_info == file_table[CHOOSE d \in known : \A e \in known : e <= d]
                     f == Filter(file_info.published_date, file_info.source,
                                 file_info.file_name, content.keywords,
                                 PyStr(content.content), criteria)
                 IN IF f.raised THEN [raised |-> TRUE, results |-> <<>>]
                    ELSE IF ~f.keep THEN rest
                    ELSE [rest EXCEPT !.results =
                             <<[file_name |-> file_info.file_name,
                                page_number |-> content.page_number,
                                page_content |-> content.content,
                                page_keywords |-> content.keywords,
                                published_by |-> file_info.source,
                                published_date |-> file_info.published_date,
                                matched_keywords |-> f.matched]>> \o @]

\* _parse_date: a str is parsed, datetime.min when it is no date; any other
\* value is returned as it is
_parse_date(published_date) ==
    IF published_date.type = "str"
    THEN PyDatetime(IF fromisoformat(published_date.v).raised
                    THEN datetime_min
                    ELSE fromisoformat(published_date.v).value)
    ELSE published_date

\* a datetime as a number that orders datetimes of one kind
Ordinal(dt) == ((dt.y * 100 + dt.m) * 100 + dt.d) * 100 + dt.h

\* the `<` of two sort keys raises TypeError: None against anything, a datetime
\* with a UTC offset against one without
Incomparable(a, b) ==
    \/ a.type # "datetime"
    \/ b.type # "datetime"
    \/ a.v.aware # b.v.aware

\* sorted(..., reverse=True) of the items by their numeric keys: descending,
\* items of equal key in their original order
RECURSIVE sorted_reverse(_, _)
sorted_reverse(items, keys) ==
    IF items = <<>>
    THEN <<>>
    ELSE LET top == CHOOSE i \in DOMAIN keys : \A j \in DOMAIN keys : keys[j] <= keys[i]
             first == CHOOSE i \in DOMAIN keys :
                         /\ keys[i] = keys[top]
                         /\ \A j \in DOMAIN keys : keys[j] = keys[top] => i <= j
             without(s) == SubSeq(s, 1, first - 1) \o SubSeq(s, first + 1, Len(s))
         IN <<items[first]>> \o sorted_reverse(without(items), without(keys))

\* the sort of run(): by the number of matched keywords when the criteria have
\* keywords, by _parse_date(published_date) otherwise: [raised, results]
Ranked(results, criteria) ==
    IF criteria.keywords # <<>>
    THEN [raised |-> FALSE,
          results |-> sorted_reverse(results,
                          [i \in DOMAIN results |-> Len(results[i].matched_keywords)])]
    ELSE LET key == [i \in DOMAIN results |-> _parse_date(results[i].published_date)]
         IN IF \E i, j \in DOMAIN key : i # j /\ Incomparable(key[i], key[j])
            THEN [raised |-> TRUE, results |-> <<>>]
            ELSE [raised |-> FALSE,
                  results |-> sorted_reverse(results,
                                  [i \in DOMAIN key |->
                                      IF key[i].type = "datetime"
                                      THEN Ordinal(key[i].v) ELSE 0])]

\* total_matches // page_size: a last page that is not full is not counted
total_pages_floor(total_matches, page_size) == total_matches \div page_size

\* total_pages = (total_matches + page_size - 1) // page_size
total_pages_of(total_matches, page_size) ==
    (total_matches + page_size - 1) \div page_size

\* the answer to an index beyond the last page, without the totals
beyond_last_page_zero(idx, total_pages, total_matches) == EmptyOutcome(idx)

\* the answer to an index beyond the last page
beyond_last_page(idx, total_pages, total_matches) ==
    [results |-> <<>>, current_page |-> idx, total_pages |-> total_pages,
     total_matches |-> total_matches]

\* results[start:end]
Slice(s, start, end) ==
    SubSeq(s, start + 1, IF end < Len(s) THEN end ELSE Len(s))

\* run(), from the sort to the return
Paginate(matches, criteria, max_results, idx) ==
    LET sorted == Ranked(matches, criteria)
        page_size == max_results
        total_matches == Len(sorted.results)
    IN IF sorted.raised \/ page_size = 0
       THEN EmptyOutcome(idx)
       ELSE LET total_pages == total_pages_of(total_matches, page_size)
                start == (idx - 1) * page_size
            IN IF idx > total_pages /\ total_matches > 0
               THEN beyond_last_page(idx, total_pages, total_matches)
               ELSE [results |-> Slice(sorted.results, start, start + page_size),
                     current_page |-> idx, total_pages |-> total_pages,
                     total_matches |-> total_matches]

FileRetriever_run(file_table, max_results, criteria, idx) ==
    IF idx < 1 THEN EmptyOutcome(idx)
    ELSE IF DOMAIN file_table = {} THEN EmptyOutcome(idx)
    ELSE LET found == FileResults(get_all_files(file_table), criteria)
         IN IF found.raised THEN EmptyOutcome(idx)
            ELSE Paginate(found.results, criteria, max_results, idx)

ContentRetriever_run(file_table, content_table, max_results, criteria, idx) ==
    IF idx < 1 THEN EmptyOutcome(idx)
    ELSE IF DOMAIN content_table = {} THEN EmptyOutcome(idx)
    ELSE LET found == ContentResults(AllRows(content_table, DOMAIN content_table),
                                     file_table, criteria)
         IN IF found.raised THEN EmptyOutcome(idx)
            ELSE Paginate(found.results, criteria, max_results, idx)

----------------------------------------------------------------------------
(* Embedder (embedder.py): the index and the mapping it persists, the      *)
(* rebuild that writes them and the query that reads them                  *)

\* a persisted artifact: the build that wrote it (0: no such file) and what
\* it holds
NoFile == [build |-> 0, data |-> <<>>]

PreIdle == [pc |-> "idle", build |-> 0, index |-> <<>>, page_ids |-> <<>>,
            at_build |-> [d \in {} |-> NoDoc]]
QueryIdle == [pc |-> "idle", k |-> 0, recall_threshold |-> 0, index |-> NoFile,
              page_ids |-> NoFile, raised |-> FALSE, result |-> <<>>]

NoFaiss == [index_file |-> NoFile, ids_file |-> NoFile, builds |-> 0, queries |-> 0,
            pre |-> PreIdle, query |-> QueryIdle]

\* model.encode: the normalized embedding of a text, held as its inner product
\* with the embedding of the query, in hundredths
encode(text) ==
    CASE text = "a1" -> 55
      [] text = "a2" -> 40
      [] text = "a3" -> 20
      [] OTHER -> 5

\* the rows of the contents table, in doc order, whose abstract is not ''
_get_abstract(content_table) ==
    SelectSeq(AllRows(content_table, DOMAIN content_table), LAMBDA cnt : cnt.abstract # "")

\* precalculation: 'if not all_abstracts: return'
nothing_to_embed(all_abstracts) == all_abstracts = <<>>

\* precalculation: the embeddings added to the index and the page ids
\* collected, batch after batch, in the order of the records
precalculation(content_table) ==
    LET all_abstracts == _get_abstract(content_table)
    IN [index |-> [i \in DOMAIN all_abstracts |-> encode(all_abstracts[i].abstract)],
        page_ids |-> [i \in DOMAIN all_abstracts |-> all_abstracts[i].page_id]]

\* the distance faiss reports for a neighbour it does not have
MinSim == -1000

\* IndexFlatIP.search: the positions by descending inner product, the first
\* of two equal ones first; a position is counted from 0
RECURSIVE Nearest(_, _)
Nearest(data, left) ==
    IF left = {}
    THEN <<>>
    ELSE LET best == CHOOSE i \in left :
                        \A j \in left : data[i] > data[j] \/ (data[i] = data[j] /\ i <= j)
         IN <<[idx |-> best - 1, sim |-> data[best]]>> \o Nearest(data, left \ {best})

\* index.search(query, search_k): the neighbours missing from a short index
\* are reported at position -1 (the first of them is kept)
index_search(data, search_k) ==
    LET all == Nearest(data, DOMAIN data)
    IN IF Len(all) >= search_k
       THEN SubSeq(all, 1, search_k)
       ELSE Append(all, [idx |-> -1, sim |-> MinSim])

\* a threshold test that lets every neighbour through
recalled_always(sim, recall_threshold) == TRUE

\* 'if sim >= recall_threshold'
recalled(sim, recall_threshold) == sim >= recall_threshold

RetrieveError == [kind |-> "error", hits |-> <<>>]

\* the loop over the neighbours: it stops at the first one below the
\* threshold; page_ids[idx] raises IndexError beyond the mapping and counts
\* a negative idx from its end
RECURSIVE filter_results(_, _, _)
filter_results(found, page_ids, recall_threshold) ==
    IF found = <<>> \/ ~recalled(Head(found).sim, recall_threshold)
    THEN [kind |-> "ok", hits |-> <<>>]
    ELSE LET idx == Head(found).idx
             pos == IF idx < 0 THEN Len(page_ids) + idx + 1 ELSE idx + 1
             rest == filter_results(Tail(found), page_ids, recall_threshold)
         IN IF pos \notin DOMAIN page_ids \/ rest.kind = "error"
            THEN RetrieveError
            ELSE [kind |-> "ok",
                  hits |-> <<[page_id |-> page_ids[pos],
                              similarity |-> Head(found).sim]>> \o rest.hits]

\* 'if len(filtered_results) > k: filtered_results = filtered_results[:k]'
top_k(filtered_results, k) ==
    IF Len(filtered_results) > k THEN SubSeq(filtered_results, 1, k) ELSE filtered_results

\* get_contents_by_page_ids and get_files_by_ids, joined: the Content rows
\* of the hits in the order of the table, without those that have no File
\* row; a hit without a Content row is left out
page_info(hits, file_table, fidx, content_table, cidx) ==
    LET doc_ids == {IndexGet(cidx, hits[i].page_id) : i \in DOMAIN hits}
        rows == AllRows(content_table, doc_ids \cap DOMAIN content_table)
        kept == SelectSeq(rows, LAMBDA c : IndexGet(fidx, c.file_id) \in DOMAIN file_table)
        item(page_id) ==
            hits[CHOOSE i \in DOMAIN hits :
                    /\ hits[i].page_id = page_id
                    /\ \A j \in DOMAIN hits : hits[j].page_id = page_id => j <= i]
    IN [i \in DOMAIN kept |->
           [page_id |-> kept[i].page_id,
            file_id |-> kept[i].file_id,
            vector_similarity |-> item(kept[i].page_id).similarity]]

\* a missing artifact answered with no result
missing_artifact_empty(index_file, ids_file) == [kind |-> "ok", hits |-> <<>>]

\* retrieve: 'raise FileNotFoundError', raised again as RuntimeError
missing_artifact(index_file, ids_file) == RetrieveError

\* os.path.exists of both artifacts
artifacts_exist(index_file, ids_file) == index_file.build # 0 /\ ids_file.build # 0

\* retrieve, from the index and the mapping it has loaded
retrieve(index, page_ids, file_table, fidx, content_table, cidx, k, recall_threshold) ==
    LET search_k == IF k > 100 THEN k ELSE 100
        found == index_search(index, search_k)
        filtered == filter_results(found, page_ids, recall_threshold)
    IN IF filtered.kind = "error"
       THEN RetrieveError
       ELSE [kind |-> "ok",
             hits |-> page_info(top_k(filtered.hits, k), file_table, fidx,
                                content_table, cidx)]

(* The rebuild, step by step *)

MaxBuilds == 2         \* rebuilds of the index
MaxQueries == 2        \* queries

\* precalculation up to _save_faiss_index; without an abstract it returns
\* and writes nothing
PrecalculationCalled ==
    /\ faiss.pre.pc = "idle"
    /\ faiss.builds < MaxBuilds
    /\ LET built == precalculation(contents)
       IN faiss' = [faiss EXCEPT
              !.builds = @ + 1,
              !.pre = [pc |-> IF nothing_to_embed(_get_abstract(contents))
                              THEN "returned" ELSE "built",
                       build |-> faiss.builds + 1,
                       index |-> built.index, page_ids |-> built.page_ids,
                       at_build |-> contents]]
    /\ UNCHANGED <<store, disk, ing, ann, hist, search, page_dirs>>

\* _save_faiss_index: faiss.write_index
SaveIndex ==
    /\ faiss.pre.pc = "built"
    /\ faiss' = [faiss EXCEPT
           !.index_file = [build |-> faiss.pre.build, data |-> faiss.pre.index],
           !.pre.pc = "index_saved"]
    /\ UNCHANGED <<store, disk, ing, ann, hist, search, page_dirs>>

\* _save_faiss_index: np.save of the page ids, and precalculation returns
SavePageIds ==
    /\ faiss.pre.pc = "index_saved"
    /\ faiss' = [faiss EXCEPT
           !.ids_file = [build |-> faiss.pre.build, data |-> faiss.pre.page_ids],
           !.pre.pc = "returned"]
    /\ UNCHANGED <<store, disk, ing, ann, hist, search, page_dirs>>

PrecalculationDone ==
    /\ faiss.pre.pc = "returned"
    /\ faiss' = [faiss EXCEPT !.pre = PreIdle]
    /\ UNCHANGED <<store, disk, ing, ann, hist, search, page_dirs>>

(* The query, step by step *)

\* retrieve up to the test that both artifacts exist
RetrieveCalled(k, recall_threshold) ==
    /\ faiss.query.pc = "idle"
    /\ faiss.queries < MaxQueries
    /\ LET exist == artifacts_exist(faiss.index_file, faiss.ids_file)
           missing == missing_artifact(faiss.index_file, faiss.ids_file)
       IN faiss' = [faiss EXCEPT
              !.queries = @ + 1,
              !.query = [QueryIdle EXCEPT
                            !.pc = IF exist THEN "exist" ELSE "returned",
                            !.k = k, !.recall_threshold = recall_threshold,
                            !.raised = ~exist /\ missing.kind = "error",
                            !.result = missing.hits]]
    /\ UNCHANGED <<store, disk, ing, ann, hist, search, page_dirs>>

\* faiss.read_index
RetrieveReadsIndex ==
    /\ faiss.query.pc = "exist"
    /\ faiss' = [faiss EXCEPT !.query.index = faiss.index_file, !.query.pc = "index_read"]
    /\ UNCHANGED <<store, disk, ing, ann, hist, search, page_dirs>>

\* np.load of the page ids, the search and the lookups in the store
RetrieveReturns ==
    /\ faiss.query.pc = "index_read"
    /\ \E r \in {retrieve(faiss.query.index.data, faiss.ids_file.data, files, file_index,
                          contents, content_index, faiss.query.k,
                          faiss.query.recall_threshold)} :
          /\ faiss' = [faiss EXCEPT !.query.page_ids = faiss.ids_file,
                                 !.query.pc = "returned",
                                 !.query.raised = r.kind = "error",
                                 !.query.result = r.hits]
          /\ files' = document_setitem(
                          files,
                          {IndexGet(file_index, r.hits[i].file_id) : i \in DOMAIN r.hits},
                          "full_path")
    /\ UNCHANGED <<file_index, contents, content_index, disk, ing, ann, hist, search,
                   page_dirs>>

RetrieveDone ==
    /\ faiss.query.pc = "returned"
    /\ faiss' = [faiss EXCEPT !.query = QueryIdle]
    /\ UNCHANGED <<store, disk, ing, ann, hist, search, page_dirs>>

----------------------------------------------------------------------------
(* FileModel and ContentModel: the lookups by a key, the batch reads and   *)
(* the batch delete, each with the failures of the store it handles        *)

\* TinyDBManager._build_indexes, the contents table
_build_content_index(table) ==
    [k \in {table[d].page_id : d \in DOMAIN table} \cup {table[d].file_id : d \in DOMAIN table}
        |-> IF \E d \in DOMAIN table : table[d].page_id = k
            THEN CHOOSE d \in DOMAIN table :
                    /\ table[d].page_id = k
                    /\ \A e \in DOMAIN table : table[e].page_id = k => e <= d
            ELSE DocsWithFileId(table, k)]

\* a lookup that answers with some row when the key is unknown
get_content_by_page_id_any(cs, cidx, page_id) ==
    LET d == IndexGet(cidx, page_id)
    IN IF d # NoDoc /\ d \in DOMAIN cs THEN d
       ELSE IF DOMAIN cs = {} THEN NoDoc ELSE CHOOSE x \in DOMAIN cs : TRUE

\* get_content_by_page_id: None when the index has no such page id
get_content_by_page_id(cs, cidx, page_id) ==
    LET d == IndexGet(cidx, page_id)
    IN IF d # NoDoc /\ d \in DOMAIN cs THEN d ELSE NoDoc

\* get_contents_by_file_id: the rows of the doc ids the index holds for the
\* file; an exception of the store is logged and answered with []
get_contents_by_file_id(cs, cidx, file_id, raises) ==
    LET doc_ids == IF file_id \in DOMAIN cidx THEN cidx[file_id] ELSE {}
    IN IF raises \/ doc_ids = {} THEN <<>>
       ELSE AllRows(cs, doc_ids \cap DOMAIN cs)

\* get_files_by_ids: likewise
get_files_by_ids(fs, fidx, file_ids, raises) ==
    LET doc_ids == {IndexGet(fidx, file_ids[i]) : i \in DOMAIN file_ids} \ {NoDoc}
    IN IF raises THEN <<>> ELSE AllRows(fs, doc_ids \cap DOMAIN fs)

StoreFaults == {"none", "read", "remove"}

\* delete_contents_by_file_id: [contents, index, count]; the rows are read
\* through get_contents_by_file_id, which answers [] when the store fails,
\* and an exception of contents.remove is logged and answered with 0
delete_contents_by_file_id(cs, cidx, file_id, fault) ==
    LET found == get_contents_by_file_id(cs, cidx, file_id, fault = "read")
        removed == DocsWithFileId(cs, file_id)
        page_ids == {found[i].page_id : i \in DOMAIN found}
    IN IF fault = "remove" \/ removed = {}
       THEN [contents |-> cs, index |-> cidx, count |-> 0]
       ELSE [contents |-> TableRemove(cs, removed),
             index |-> [k \in DOMAIN cidx \ (page_ids \cup {file_id}) |-> cidx[k]],
             count |-> Cardinality(removed)]

\* the key of a call: a file id, a page id or a path
KeyOf(fn, n) ==
    CASE fn = "get_content_by_page_id" -> Uuid("page", n)
      [] fn = "get_file_by_path" -> <<"files", ToString(n)>>
      [] OTHER -> Uuid("file", n)

\* get_file_by_id, get_file_by_path and get_content_by_page_id return
GetFileByIdReturns ==
    /\ search.fn = "get_file_by_id" /\ search.pc = "called"
    /\ search' = [search EXCEPT !.pc = "returned",
                     !.result = get_file_by_id(files, file_index, search.key)]
    /\ UNCHANGED <<store, disk, ing, ann, hist, page_dirs, faiss>>

GetFileByPathReturns ==
    /\ search.fn = "get_file_by_path" /\ search.pc = "called"
    /\ search' = [search EXCEPT !.pc = "returned",
                     !.result = get_file_by_path(files, file_index, search.key)]
    /\ UNCHANGED <<store, disk, ing, ann, hist, page_dirs, faiss>>

GetContentByPageIdReturns ==
    /\ search.fn = "get_content_by_page_id" /\ search.pc = "called"
    /\ search' = [search EXCEPT !.pc = "returned",
                     !.result = get_content_by_page_id(contents, content_index,
                                                       search.key)]
    /\ UNCHANGED <<store, disk, ing, ann, hist, page_dirs, faiss>>

\* the batch reads return, the store failing or not
GetContentsByFileIdReturns(raises) ==
    /\ search.fn = "get_contents_by_file_id" /\ search.pc = "called"
    /\ search' = [search EXCEPT !.pc = "returned",
                     !.fault = IF raises THEN "read" ELSE "none",
                     !.result = get_contents_by_file_id(contents, content_index,
                                                        search.key, raises)]
    /\ UNCHANGED <<store, disk, ing, ann, hist, page_dirs, faiss>>

GetFilesByIdsReturns(raises) ==
    /\ search.fn = "get_files_by_ids" /\ search.pc = "called"
    /\ search' = [search EXCEPT !.pc = "returned",
                     !.fault = IF raises THEN "read" ELSE "none",
                     !.result = get_files_by_ids(files, file_index, <<search.key>>,
                                                 raises)]
    /\ UNCHANGED <<store, disk, ing, ann, hist, page_dirs, faiss>>

DeleteContentsByFileIdReturns(fault) ==
    /\ search.fn = "delete_contents_by_file_id" /\ search.pc = "called"
    /\ \E r \in {delete_contents_by_file_id(contents, content_index, search.key, fault)} :
          /\ contents' = r.contents
          /\ content_index' = r.index
          /\ search' = [search EXCEPT !.pc = "returned", !.fault = fault,
                                      !.result = r.count]
    /\ UNCHANGED <<files, file_index, disk, ing, ann, hist, page_dirs, faiss>>

\* FileRetriever.run and ContentRetriever.run when the read of the table
\* raises: 'except Exception' answers with the outcome of a search without
\* matches
RetrieverStoreRaises ==
    /\ search.fn \in {"FileRetriever", "ContentRetriever"} /\ search.pc = "called"
    /\ search.idx >= 1
    /\ search' = [search EXCEPT !.pc = "returned", !.fault = "read",
                                !.result = EmptyOutcome(search.idx)]
    /\ UNCHANGED <<store, disk, ing, ann, hist, page_dirs, faiss>>

----------------------------------------------------------------------------
(* ContentModel: the calls that write the contents table                  *)

\* a removal that leaves the doc id in the set of its file
delete_content_keeps_file_entry(cs, cidx, page_id, fault) ==
    LET d == get_content_by_page_id(cs, cidx, page_id)
    IN IF d = NoDoc \/ fault = "remove"
       THEN [contents |-> cs, index |-> cidx, ok |-> FALSE]
       ELSE [contents |-> TableRemove(cs, {e \in DOMAIN cs : cs[e].page_id = page_id}),
             index |-> IndexPop(cidx, page_id), ok |-> TRUE]

\* delete_content: [contents, index, ok]; False when the page id is not in
\* the index or contents.remove raises; the doc id is taken out of the set
\* of its file and an empty set is dropped
delete_content(cs, cidx, page_id, fault) ==
    LET d == get_content_by_page_id(cs, cidx, page_id)
    IN IF d = NoDoc \/ fault = "remove"
       THEN [contents |-> cs, index |-> cidx, ok |-> FALSE]
       ELSE LET file_id == cs[d].file_id
                doc_id == IndexGet(cidx, page_id)
                popped == IndexPop(cidx, page_id)
                rest == IF file_id \in DOMAIN popped THEN popped[file_id] \ {doc_id}
                        ELSE {}
            IN [contents |-> TableRemove(cs, {e \in DOMAIN cs : cs[e].page_id = page_id}),
                index |-> IF file_id \notin DOMAIN popped THEN popped
                          ELSE IF rest = {} THEN IndexPop(popped, file_id)
                          ELSE IndexPut(popped, file_id, rest),
                ok |-> TRUE]

MaxContentIds == 3     \* the largest doc id of the contents table

ContentCall(fn, key, fault, result) ==
    [fn |-> fn, pc |-> "returned", key |-> key, fault |-> fault, result |-> result]

\* create_content returns the page id, or contents.insert raises
CreateContentCall(file_id, page_number, data, fault) ==
    /\ NextDocId(contents) <= MaxContentIds
    /\ \E r \in {create_content(contents, content_index, file_id, page_number, data,
                                 hist.now)} :
          IF fault = "none"
          THEN /\ contents' = r.contents
               /\ content_index' = r.index
               /\ search' = ContentCall("create_content", file_id, fault,
                                        Uuid("page", NextDocId(contents)))
          ELSE /\ UNCHANGED <<contents, content_index>>
               /\ search' = ContentCall("create_content", file_id, fault, "RuntimeError")
    /\ UNCHANGED <<files, file_index, disk, ing, ann, hist, page_dirs, faiss>>

\* update_content, as _update_models calls it
UpdateContentCall(page_id, data) ==
    /\ contents' = update_content(contents, page_id,
                        [title |-> data.title, prop |-> data.property,
                         abstract |-> data.abstract, keywords |-> data.keywords],
                        hist.now)
    /\ search' = ContentCall("update_content", page_id, "none",
                             IF contents' = contents THEN "RuntimeError" ELSE NoneVal)
    /\ UNCHANGED <<files, file_index, content_index, disk, ing, ann, hist, page_dirs,
                   faiss>>

DeleteContentCall(page_id, fault) ==
    /\ \E r \in {delete_content(contents, content_index, page_id, fault)} :
          /\ contents' = r.contents
          /\ content_index' = r.index
          /\ search' = ContentCall("delete_content", page_id, fault, r.ok)
    /\ UNCHANGED <<files, file_index, disk, ing, ann, hist, page_dirs, faiss>>

DeleteContentsByFileIdCall(file_id, fault) ==
    /\ \E r \in {delete_contents_by_file_id(contents, content_index, file_id, fault)} :
          /\ contents' = r.contents
          /\ content_index' = r.index
          /\ search' = ContentCall("delete_contents_by_file_id", file_id, fault, r.count)
    /\ UNCHANGED <<files, file_index, disk, ing, ann, hist, page_dirs, faiss>>

----------------------------------------------------------------------------
(* FileModel.update_file with a store write that may raise                 *)

\* update_file when files.update raises: the table is as it was, the index
\* is what the lines before the write made of it
update_file_write_raises(fs, idx, file_id, kwargs) ==
    LET r == update_file(fs, idx, file_id, kwargs)
    IN [err |-> IF r.err = "none" THEN "RuntimeError" ELSE r.err,
        files |-> fs, index |-> r.index]

UpdateFileCalled(file_id, kwargs) ==
    /\ search.pc # "called"
    /\ search' = [fn |-> "update_file", pc |-> "called", key |-> file_id,
                  kwargs |-> kwargs, err |-> "none"]
    /\ UNCHANGED <<store, disk, ing, ann, hist, page_dirs, faiss>>

UpdateFileReturns(fault) ==
    /\ search.fn = "update_file" /\ search.pc = "called"
    /\ \E r \in {IF fault = "none"
                  THEN update_file(files, file_index, search.key, search.kwargs)
                  ELSE update_file_write_raises(files, file_index, search.key,
                                                search.kwargs)} :
          /\ files' = r.files
          /\ file_index' = r.index
          /\ search' = [search EXCEPT !.pc = "returned", !.err = r.err]
    /\ UNCHANGED <<contents, content_index, disk, ing, ann, hist, page_dirs, faiss>>
----------------------------------------------------------------------------
(* Initial state: an empty database, nothing on disk, no run in progress *)

\* nothing stored, nothing on disk, no run under way
EmptyLibrary ==
    /\ files = [d \in {} |-> NoDoc]
    /\ file_index = EmptyIndex
    /\ contents = [d \in {} |-> NoDoc]
    /\ content_index = EmptyIndex
    /\ disk = [n \in {} |-> NoDoc]
    /\ ing = IngIdle
    /\ ann = AnnIdle
    /\ hist = HistNone
    /\ page_dirs = {}
    /\ faiss = NoFaiss

Init == EmptyLibrary /\ search = NoSearch

----------------------------------------------------------------------------
(* The FileModel interface called directly *)

RawPaths == {<<"a">>, <<".", "a">>, <<"b">>, <<"b", "..", "a">>}

\* the keyword arguments tried: a path, a status, both, or nothing but None
UpdateKwargs ==
    {[vals |-> [file_path |-> p], nones |-> {}] : p \in RawPaths}
    \cup {[vals |-> [opt_msg |-> "processed"], nones |-> {"file_path"}]}
    \cup {[vals |-> [file_path |-> p, opt_msg |-> "completed"], nones |-> {}] : p \in {<<"b">>}}
    \cup {[vals |-> <<>>, nones |-> {"opt_msg"}]}

FileIds == {Uuid("file", n) : n \in 1..MaxStoreFiles}

CreateFileCall(p) ==
    /\ NextDocId(files) <= MaxStoreFiles
    /\ LET r == create_file(files, file_index, p, 1, 1, "initial")
       IN /\ files' = r.files
          /\ file_index' = r.index
    /\ UNCHANGED <<contents, content_index, disk, ing, ann, hist, search, page_dirs, faiss>>

UpdateFileCall(id, kw) ==
    /\ LET r == update_file(files, file_index, id, kw)
       IN /\ files' = r.files
          /\ file_index' = r.index
    /\ UNCHANGED <<contents, content_index, disk, ing, ann, hist, search, page_dirs, faiss>>

DeleteFileCall(id) ==
    /\ LET r == delete_file(files, file_index, id)
       IN /\ files' = r.files
          /\ file_index' = r.index
    /\ UNCHANGED <<contents, content_index, disk, ing, ann, hist, search, page_dirs, faiss>>

NextStore ==
    \/ \E p \in RawPaths : CreateFileCall(p)
    \/ \E id \in FileIds, kw \in UpdateKwargs : UpdateFileCall(id, kw)
    \/ \E id \in FileIds : DeleteFileCall(id)

SpecStore == Init /\ [][NextStore]_vars

(* create_file and update_file calls, where the write of update_file may   *)
(* raise; the last of the file ids is never given to a row                 *)
NextUpdate ==
    \/ \E p \in {<<"a">>, <<"b">>} : NextDocId(files) < MaxStoreFiles /\ CreateFileCall(p)
    \/ \E id \in FileIds, kw \in UpdateKwargs : UpdateFileCalled(id, kw)
    \/ \E fault \in {"none", "write"} : UpdateFileReturns(fault)

SpecUpdate == Init /\ [][NextUpdate]_vars

(* Ingestion runs over two PDFs that are added, edited, touched, made      *)
(* unreadable and deleted between the runs                                 *)
NextIngest ==
    \/ RunStart
    \/ ScanFile
    \/ ProcessInitial
    \/ ProcessPagesUpdating
    \/ \E o \in CleanupOutcomes : ProcessCleanup(o)
    \/ \E o \in RenderOutcomes : ProcessRender(o)
    \/ \E o \in AddOutcomes : ProcessAddPages(o)
    \/ ProcessCompleted
    \/ AfterProcess
    \/ BatchUpdate
    \/ RunReturns
    \/ RunDone
    \/ \E n \in Names, np \in 1..MaxPages : AddPdf(n, np)
    \/ \E n \in Names, np \in 1..MaxPages : EditPdf(n, np)
    \/ \E n \in Names : TouchPdf(n)
    \/ \E n \in Names : LockPdf(n)
    \/ \E n \in Names : RemovePdf(n)
    \/ ProcessInitialRaises
    \/ ProcessPagesUpdatingRaises

SpecIngest == Init /\ [][NextIngest]_vars

(* Ingestion runs over one PDF that is edited between them, where every   *)
(* write of the status, the cleanup and the rendering may fail             *)
NextCleanup ==
    \/ RunStart
    \/ ScanFile
    \/ ProcessInitial
    \/ ProcessInitialRaises
    \/ ProcessPagesUpdating
    \/ ProcessPagesUpdatingRaises
    \/ \E o \in CleanupOutcomes : ProcessCleanup(o)
    \/ \E o \in RenderOutcomes : ProcessRender(o)
    \/ ProcessAddPages("ok")
    \/ ProcessCompleted
    \/ AfterProcess
    \/ BatchUpdate
    \/ RunReturns
    \/ RunDone
    \/ \E np \in 1..MaxPages : AddPdf("a.pdf", np)
    \/ \E np \in 1..MaxPages : EditPdf("a.pdf", np)

SpecCleanup == Init /\ [][NextCleanup]_vars


(* Annotation runs, which may stop at any point, over the pages of one PDF *)
(* that was ingested once, without a fault                                 *)
NextAnnotate ==
    \/ (DOMAIN disk # {} /\ DOMAIN files = {} /\ RunStart)
    \/ ScanFile
    \/ ProcessInitial
    \/ ProcessPagesUpdating
    \/ ProcessCleanup("ok")
    \/ ProcessRender("ok")
    \/ ProcessAddPages("ok")
    \/ ProcessCompleted
    \/ AfterProcess
    \/ BatchUpdate
    \/ RunReturns
    \/ RunDone
    \/ \E np \in 1..MaxPages : AddPdf("a.pdf", np)
    \/ AnnStart
    \/ \E t \in DOMAIN ann.tasks : TaskAcquire(t)
    \/ \E t \in DOMAIN ann.tasks, o \in ServiceOutcomes, w \in 1..3 : TaskAttempt(t, o, w)
    \/ AnnReturns
    \/ AnnDone
    \/ AnnStop

SpecAnnotate == Init /\ [][NextAnnotate]_vars

(* Ingestion and annotation runs in turn over one PDF that is edited       *)
(* between them                                                            *)
Next ==
    \/ RunStart
    \/ ScanFile
    \/ ProcessInitial
    \/ ProcessPagesUpdating
    \/ ProcessCleanup("ok")
    \/ \E o \in RenderOutcomes : ProcessRender(o)
    \/ ProcessAddPages("ok")
    \/ ProcessCompleted
    \/ AfterProcess
    \/ BatchUpdate
    \/ RunReturns
    \/ RunDone
    \/ \E np \in 1..MaxPages : AddPdf("a.pdf", np)
    \/ \E np \in 1..MaxPages : EditPdf("a.pdf", np)
    \/ AnnStart
    \/ \E t \in DOMAIN ann.tasks : TaskAcquire(t)
    \/ \E t \in DOMAIN ann.tasks, o \in ServiceOutcomes : TaskAttempt(t, o, 3)
    \/ AnnReturns
    \/ AnnDone

Spec == Init /\ [][Next]_vars

(* The same over a PDF of one page, where the cleanup of the old page      *)
(* records may fail, so that a page number is pending twice and two tasks  *)
(* of a run annotate the same page                                         *)
NextReannotate ==
    \/ RunStart
    \/ ScanFile
    \/ ProcessInitial
    \/ ProcessPagesUpdating
    \/ \E o \in CleanupOutcomes : ProcessCleanup(o)
    \/ ProcessRender("ok")
    \/ ProcessAddPages("ok")
    \/ ProcessCompleted
    \/ AfterProcess
    \/ BatchUpdate
    \/ RunReturns
    \/ RunDone
    \/ AddPdf("a.pdf", 1)
    \/ TouchPdf("a.pdf")
    \/ AnnStart
    \/ \E t \in DOMAIN ann.tasks : TaskAcquire(t)
    \/ \E t \in DOMAIN ann.tasks, o \in ServiceOutcomes : TaskAttempt(t, o, 3)
    \/ AnnReturns
    \/ AnnDone

SpecReannotate == Init /\ [][NextReannotate]_vars

(* One annotation run after another over a PDF with more pages than the   *)
(* semaphore has permits, ingested once without a fault                    *)
PoolPages == 3

PoolOutcomes ==
    {o \in ServiceOutcomes : o.kind = "timeout" \/ (o.kind = "json" /\ o.data.title = "t1")}

NextPool ==
    \/ (DOMAIN disk # {} /\ DOMAIN files = {} /\ RunStart)
    \/ ScanFile
    \/ ProcessInitial
    \/ ProcessPagesUpdating
    \/ ProcessCleanup("ok")
    \/ ProcessRender("ok")
    \/ ProcessAddPages("ok")
    \/ ProcessCompleted
    \/ AfterProcess
    \/ BatchUpdate
    \/ RunReturns
    \/ RunDone
    \/ AddPdf("a.pdf", PoolPages)
    \/ AnnStart
    \/ \E t \in DOMAIN ann.tasks : TaskAcquire(t)
    \/ \E t \in DOMAIN ann.tasks, o \in PoolOutcomes : TaskAttempt(t, o, 3)
    \/ AnnReturns
    \/ AnnDone

SpecPool == Init /\ [][NextPool]_vars

\* task t is inside process_page, between the request and its answer; the
\* answer always counts as a call, so this is where an attempt can be taken
AwaitsAnswer(t) ==
    ann.pc = "running" /\ t \in DOMAIN ann.tasks /\ ann.tasks[t].pc = "calling"

(* The same where every call of the service returns or fails, a free permit *)
(* is handed to a task that waits for it, and gather returns. The second    *)
(* conjunct is weak fairness of the attempt of task t, written with the     *)
(* state predicate AwaitsAnswer(t) that tells where the attempt is enabled  *)
SpecPoolFair ==
    /\ SpecPool
    /\ \A t \in 1..PoolPages :
          /\ WF_vars(t \in DOMAIN ann.tasks /\ TaskAcquire(t))
          /\ \/ []<>~AwaitsAnswer(t)
             \/ []<><<\E o \in PoolOutcomes :
                         t \in DOMAIN ann.tasks /\ TaskAttempt(t, o, 3)>>_vars
    /\ WF_vars(AnnReturns)

(* Annotation runs over the pages of one PDF, ingested once without a     *)
(* fault, where the service either answers or rejects the request for good *)
RejectOutcomes ==
    {o \in ServiceOutcomes : o.kind = "http_400" \/ (o.kind = "json" /\ o.data.title = "t1")}

NextReject ==
    \/ (DOMAIN disk # {} /\ DOMAIN files = {} /\ RunStart)
    \/ ScanFile
    \/ ProcessInitial
    \/ ProcessPagesUpdating
    \/ ProcessCleanup("ok")
    \/ ProcessRender("ok")
    \/ ProcessAddPages("ok")
    \/ ProcessCompleted
    \/ AfterProcess
    \/ BatchUpdate
    \/ RunReturns
    \/ RunDone
    \/ \E np \in 1..MaxPages : AddPdf("a.pdf", np)
    \/ AnnStart
    \/ \E t \in DOMAIN ann.tasks : TaskAcquire(t)
    \/ \E t \in DOMAIN ann.tasks, o \in RejectOutcomes : TaskAttempt(t, o, 3)
    \/ AnnReturns
    \/ AnnDone

SpecReject == Init /\ [][NextReject]_vars

(* _match_keywords applied to keyword lists *)
MaxKeywords == 2

KeywordStrings == {<<"a">>, <<"A">>, <<" ", "a">>, <<"a", " ">>, <<"b">>, <<"a", "b">>}

KeywordLists == UNION {[1..n -> KeywordStrings] : n \in 0..MaxKeywords}

InitKeywords ==
    /\ EmptyLibrary
    /\ search \in [fn : {"_match_keywords"}, pc : {"called"},
                    target_keywords : KeywordLists,
                    criteria : [keywords : KeywordLists, match_logic : {"AND", "OR"}],
                    result : {NoneVal}]

MatchKeywordsReturns ==
    /\ search.fn = "_match_keywords" /\ search.pc = "called"
    /\ search' = [search EXCEPT !.pc = "returned",
                     !.result = _match_keywords(search.target_keywords, search.criteria)]
    /\ UNCHANGED <<store, disk, ing, ann, hist, page_dirs, faiss>>

NextKeywords == MatchKeywordsReturns

SpecKeywords == InitKeywords /\ [][NextKeywords]_vars

(* _match_date applied to targets with and without a date *)

Digit2(n) == <<Digits[(n \div 10) + 1], Digits[(n % 10) + 1]>>

Digit4(n) == Digit2(n \div 100) \o Digit2(n % 100)

\* "YYYY-MM-DD"
isodate(d) == Digit4(d.y) \o <<"-">> \o Digit2(d.m) \o <<"-">> \o Digit2(d.d)

\* "YYYY-MM-DD", a separator and "HH:00"
isodatetime(d, sep, h) == isodate(d) \o <<sep>> \o Digit2(h) \o <<":", "0", "0">>

Day(y, m, d) == [y |-> y, m |-> m, d |-> d]

NoDay == Day(0, 0, 0)

Days == {Day(2024, 1, 1), Day(2024, 2, 29), Day(2024, 3, 14), Day(2024, 3, 15),
         Day(2024, 12, 31)}

Hours == {0, 23}

\* strings that are no date
Unparseable ==
    {<<>>,
     <<"2", "0", "2", "4", "/", "0", "3", "/", "1", "5">>,
     <<"2", "0", "2", "4", "-", "3", "-", "1", "5">>,
     <<"n", "/", "a">>,
     <<"2", "0", "2", "4", "-", "0", "2", "-", "3", "0">>,
     <<"2", "0", "2", "3", "-", "0", "2", "-", "2", "9">>,
     <<"2", "0", "2", "4", "-", "1", "3", "-", "0", "1">>,
     <<"2", "0", "2", "4", "-", "0", "3", "-", "1", "5", "T", "2", "4", ":", "0", "0">>,
     <<"1", "5", ".", "0", "3", ".", "2", "0", "2", "4">>}

\* a target date as stored, with the calendar day it stands for
TargetDates ==
    {[value |-> PyStr(isodate(d)), day |-> d] : d \in Days}
    \cup {[value |-> PyStr(isodatetime(d, "T", h)), day |-> d] : d \in Days, h \in Hours}
    \cup {[value |-> PyStr(isodatetime(d, " ", h)), day |-> d] : d \in Days, h \in Hours}
    \cup {[value |-> PyStr(isodatetime(d, "T", h) \o <<"+", "0", "0", ":", "0", "0">>),
           day |-> d] : d \in Days, h \in Hours}
    \cup {[value |-> PyDatetime(datetime(d.y, d.m, d.d, h, FALSE)), day |-> d] :
              d \in Days, h \in Hours}
    \cup {[value |-> PyStr(s), day |-> NoDay] : s \in Unparseable}
    \cup {[value |-> PyNone, day |-> NoDay]}

DateBounds ==
    {PyNone} \cup {PyDatetime(datetime(d.y, d.m, d.d, h, FALSE)) :
                      d \in {Day(2024, 1, 1), Day(2024, 3, 14), Day(2024, 3, 15)},
                      h \in Hours}

InitDates ==
    /\ EmptyLibrary
    /\ search \in [fn : {"_match_date"}, pc : {"called"}, target : TargetDates,
                    criteria : [start_date : DateBounds, end_date : DateBounds],
                    result : {NoneVal}]

MatchDateReturns ==
    /\ search.fn = "_match_date" /\ search.pc = "called"
    /\ search' = [search EXCEPT !.pc = "returned",
                     !.result = _match_date(search.target.value, search.criteria)]
    /\ UNCHANGED <<store, disk, ing, ann, hist, page_dirs, faiss>>

NextDates == MatchDateReturns

SpecDates == InitDates /\ [][NextDates]_vars

(* The retrievers called on a library of files with one page each *)
MaxRows == 7           \* files of the library
MaxIndex == 5          \* the largest page index asked for

FileRetriever_max_results == 2
ContentRetriever_max_results == 5

PageSizes == {FileRetriever_max_results, 3, ContentRetriever_max_results}

\* SearchCriteria()
NoCriteria ==
    [keywords |-> <<>>, match_logic |-> "OR", publisher |-> <<>>, title |-> <<>>,
     content |-> <<>>, start_date |-> PyNone, end_date |-> PyNone]

PageCriteria ==
    {NoCriteria,
     [NoCriteria EXCEPT !.keywords = <<<<"a">>>>],
     [NoCriteria EXCEPT !.keywords = <<<<"a">>, <<"b">>>>, !.match_logic = "AND"],
     [NoCriteria EXCEPT !.title = <<"R", "1">>]}

\* the i-th file of the library: ingested and synced, or not yet synced
LibraryFile(i, synced, published_date, tags) ==
    [file_id |-> Uuid("file", i), file_path |-> <<"files", ToString(i)>>,
     file_name |-> <<"r", Digits[i + 1]>>,
     opt_msg |-> IF synced THEN "processed" ELSE "completed",
     source |-> <<"p">>, published_date |-> published_date, tags |-> tags,
     file_desc |-> PyStr(<<"d">>)]

\* its page: a main page, or a cover
LibraryContent(i, main, keywords) ==
    [page_id |-> Uuid("page", i), file_id |-> Uuid("file", i), page_number |-> 1,
     property |-> IF main THEN "main" ELSE "cover", keywords |-> keywords,
     content |-> <<"c">>]

TagsOf(i) == IF i % 2 = 1 THEN <<<<"a">>>> ELSE <<<<"A">>, <<"b">>>>

\* a library of n files; the tables are read without the indexes
Library(n, synced, dates, tags) ==
    /\ files = [i \in 1..n |-> LibraryFile(i, synced[i], dates[i], tags[i])]
    /\ file_index = _build_file_index(files)
    /\ contents = [i \in 1..n |-> LibraryContent(i, synced[i], tags[i])]
    /\ content_index = EmptyIndex
    /\ disk = [f \in {} |-> NoDoc]
    /\ ing = IngIdle
    /\ ann = AnnIdle
    /\ hist = HistNone
    /\ page_dirs = {}
    /\ faiss = NoFaiss

Retrievers == {"FileRetriever", "ContentRetriever"}

InitPages ==
    /\ \E n \in 0..MaxRows : \E synced \in [1..n -> BOOLEAN] :
          Library(n, synced, [i \in 1..n |-> PyStr(<<>>)], [i \in 1..n |-> TagsOf(i)])
    /\ search \in [fn : Retrievers, pc : {"called"}, max_results : PageSizes,
                    criteria : PageCriteria, idx : (0 - 1)..MaxIndex, result : {NoneVal}]

FileRetrieverReturns ==
    /\ search.fn = "FileRetriever" /\ search.pc = "called"
    /\ search' = [search EXCEPT !.pc = "returned",
                     !.result = FileRetriever_run(files, search.max_results,
                                                  search.criteria, search.idx)]
    /\ files' = IF search.idx >= 1
                THEN document_setitem(files, DOMAIN files, "uri") ELSE files
    /\ UNCHANGED <<file_index, contents, content_index, disk, ing, ann, hist, page_dirs,
                   faiss>>

ContentRetrieverReturns ==
    /\ search.fn = "ContentRetriever" /\ search.pc = "called"
    /\ search' = [search EXCEPT !.pc = "returned",
                     !.result = ContentRetriever_run(files, contents, search.max_results,
                                                     search.criteria, search.idx)]
    /\ files' = IF search.idx >= 1 /\ DOMAIN contents # {}
                THEN document_setitem(files, DOMAIN files, "uri") ELSE files
    /\ UNCHANGED <<file_index, contents, content_index, disk, ing, ann, hist, page_dirs,
                   faiss>>

NextPages == FileRetrieverReturns \/ ContentRetrieverReturns

SpecPages == InitPages /\ [][NextPages]_vars

(* The retrievers called on a small library whose files differ in their   *)
(* publication date and in their tags                                      *)
MaxRanked == 3         \* files of the library

\* a publication date as stored, with the hour it stands for as a number
\* (0: no date)
RankDates ==
    {[value |-> PyStr(isodate(Day(2024, 3, 15))), stamp |-> 2024031500],
     [value |-> PyStr(isodatetime(Day(2024, 1, 1), "T", 10)), stamp |-> 2024010110],
     [value |-> PyStr(isodatetime(Day(2024, 3, 15), "T", 10)
                      \o <<"+", "0", "0", ":", "0", "0">>), stamp |-> 2024031510],
     [value |-> PyStr(<<>>), stamp |-> 0],
     [value |-> PyNone, stamp |-> 0]}

RankTags == {<<<<"a">>>>, <<<<"A">>, <<"b">>>>}

RankCriteria ==
    {NoCriteria, [NoCriteria EXCEPT !.keywords = <<<<"a">>, <<"b">>>>]}

InitRank ==
    /\ \E n \in 1..MaxRanked :
          \E dates \in [1..n -> {r.value : r \in RankDates}], tags \in [1..n -> RankTags] :
              Library(n, [i \in 1..n |-> TRUE], dates, tags)
    /\ search \in [fn : Retrievers, pc : {"called"},
                    max_results : {ContentRetriever_max_results},
                    criteria : RankCriteria, idx : {1}, result : {NoneVal}]

NextRank == FileRetrieverReturns \/ ContentRetrieverReturns

SpecRank == InitRank /\ [][NextRank]_vars

(* The embedder over the pages of one file, whose abstracts are written   *)
(* between the rebuilds, and queried while a rebuild is under way          *)
MaxCorpus == 2         \* Content rows
MaxCorpusChanges == 2  \* abstracts written again
recall_threshold_default == 30
CorpusAbstracts == {"", "a1", "a2", "a3"}
TopK == {1, 2}
Thresholds == {recall_threshold_default, 50}

InitVector ==
    /\ files = [i \in 1..1 |-> LibraryFile(i, TRUE, PyStr(<<>>), TagsOf(i))]
    /\ file_index = _build_file_index(files)
    /\ contents = [d \in {} |-> NoDoc]
    /\ content_index = EmptyIndex
    /\ disk = [f \in {} |-> NoDoc]
    /\ ing = IngIdle
    /\ ann = AnnIdle
    /\ hist = HistNone
    /\ search = NoSearch
    /\ page_dirs = {}
    /\ faiss = NoFaiss

\* create_content for the next page of the file
ContentCreated(abstract) ==
    /\ Cardinality(DOMAIN contents) < MaxCorpus
    /\ LET r == create_content(contents, content_index, Uuid("file", 1),
                               NextDocId(contents),
                               [EmptyAiData EXCEPT !.abstract = abstract], 0)
       IN /\ contents' = r.contents
          /\ content_index' = r.index
    /\ UNCHANGED <<files, file_index, disk, ing, ann, hist, search, page_dirs, faiss>>

\* update_content(page_id, abstract=...)
AbstractUpdated(d, abstract) ==
    /\ d \in DOMAIN contents
    /\ hist.changes < MaxCorpusChanges
    /\ contents[d].abstract # abstract
    /\ contents' = update_content(contents, contents[d].page_id,
                                  [abstract |-> abstract], 0)
    /\ hist' = [hist EXCEPT !.changes = @ + 1]
    /\ UNCHANGED <<files, file_index, content_index, disk, ing, ann, search, page_dirs,
                   faiss>>

NextVector ==
    \/ \E a \in CorpusAbstracts : ContentCreated(a)
    \/ \E d \in 1..MaxCorpus, a \in CorpusAbstracts : AbstractUpdated(d, a)
    \/ PrecalculationCalled
    \/ SaveIndex
    \/ SavePageIds
    \/ PrecalculationDone
    \/ \E k \in TopK, t \in Thresholds : RetrieveCalled(k, t)
    \/ RetrieveReadsIndex
    \/ RetrieveReturns
    \/ RetrieveDone

SpecVector == InitVector /\ [][NextVector]_vars

(* Queries over what one build has persisted of a corpus: nothing yet,   *)
(* the index alone, or the index and the mapping                           *)
RECURSIVE CorpusOf(_)
CorpusOf(abstracts) ==
    IF abstracts = <<>>
    THEN [contents |-> [d \in {} |-> NoDoc], index |-> EmptyIndex]
    ELSE LET before == CorpusOf(SubSeq(abstracts, 1, Len(abstracts) - 1))
         IN create_content(before.contents, before.index, Uuid("file", 1),
                           Len(abstracts),
                           [EmptyAiData EXCEPT !.abstract = abstracts[Len(abstracts)]], 0)

Persisted == {"nothing", "index", "both"}

InitRetrieve ==
    /\ files = [i \in 1..1 |-> LibraryFile(i, TRUE, PyStr(<<>>), TagsOf(i))]
    /\ file_index = _build_file_index(files)
    /\ \E n \in 0..MaxCorpus : \E abstracts \in [1..n -> CorpusAbstracts] :
          /\ contents = CorpusOf(abstracts).contents
          /\ content_index = CorpusOf(abstracts).index
    /\ disk = [f \in {} |-> NoDoc]
    /\ ing = IngIdle
    /\ ann = AnnIdle
    /\ hist = HistNone
    /\ search = NoSearch
    /\ page_dirs = {}
    /\ \E saved \in Persisted :
          /\ nothing_to_embed(_get_abstract(contents)) => saved = "nothing"
          /\ LET built == precalculation(contents)
             IN faiss = [NoFaiss EXCEPT
                    !.builds = 1,
                    !.index_file = IF saved = "nothing" THEN NoFile
                                   ELSE [build |-> 1, data |-> built.index],
                    !.ids_file = IF saved = "both"
                                 THEN [build |-> 1, data |-> built.page_ids]
                                 ELSE NoFile]

NextRetrieve ==
    \/ \E k \in TopK, t \in Thresholds : RetrieveCalled(k, t)
    \/ RetrieveReadsIndex
    \/ RetrieveReturns
    \/ RetrieveDone

SpecRetrieve == InitRetrieve /\ [][NextRetrieve]_vars

(* The lookups, the batch operations, the retrievers and the vector       *)
(* search called on a library of one file and its pages                    *)
CallFns ==
    {"FileRetriever", "ContentRetriever", "get_contents_by_file_id", "get_files_by_ids",
     "delete_contents_by_file_id", "get_file_by_id", "get_file_by_path",
     "get_content_by_page_id"}

\* the first row, and a row that is not there
KeyNumbers == {1, 9}

CallsContent(i, abstract) ==
    [page_id |-> Uuid("page", i), file_id |-> Uuid("file", 1), page_number |-> i,
     property |-> "main", keywords |-> TagsOf(i), content |-> <<"c">>, title |-> "",
     abstract |-> abstract]

InitCalls ==
    /\ files = [i \in 1..1 |-> LibraryFile(i, TRUE, PyStr(<<>>), TagsOf(i))]
    /\ file_index = _build_file_index(files)
    /\ \E n \in 0..MaxCorpus : \E abstracts \in [1..n -> CorpusAbstracts] :
          contents = [i \in 1..n |-> CallsContent(i, abstracts[i])]
    /\ content_index = _build_content_index(contents)
    /\ disk = [f \in {} |-> NoDoc]
    /\ ing = IngIdle
    /\ ann = AnnIdle
    /\ hist = HistNone
    /\ page_dirs = {}
    /\ LET built == precalculation(contents)
           saved == ~nothing_to_embed(_get_abstract(contents))
       IN faiss = [NoFaiss EXCEPT
              !.builds = 1,
              !.index_file = IF saved THEN [build |-> 1, data |-> built.index] ELSE NoFile,
              !.ids_file = IF saved THEN [build |-> 1, data |-> built.page_ids]
                           ELSE NoFile]
    /\ \E fn \in CallFns, n \in KeyNumbers :
          search = [fn |-> fn, pc |-> "called", key |-> KeyOf(fn, n), fault |-> "none",
                    raised |-> FALSE,
                    max_results |-> IF fn = "ContentRetriever"
                                    THEN ContentRetriever_max_results
                                    ELSE FileRetriever_max_results,
                    criteria |-> NoCriteria, idx |-> 1, result |-> NoneVal]

NextCalls ==
    \/ GetFileByIdReturns
    \/ GetFileByPathReturns
    \/ GetContentByPageIdReturns
    \/ \E raises \in BOOLEAN : GetContentsByFileIdReturns(raises)
    \/ \E raises \in BOOLEAN : GetFilesByIdsReturns(raises)
    \/ \E fault \in StoreFaults : DeleteContentsByFileIdReturns(fault)
    \/ FileRetrieverReturns
    \/ ContentRetrieverReturns
    \/ RetrieverStoreRaises
    \/ \E k \in TopK, t \in Thresholds : RetrieveCalled(k, t)
    \/ RetrieveReadsIndex
    \/ RetrieveReturns
    \/ RetrieveDone

SpecCalls == InitCalls /\ [][NextCalls]_vars

(* File-level searches with a text filter over libraries whose files are   *)
(* annotated (file_desc is a str) or not yet (file_desc is None)           *)
MaxTextFiles == 2      \* files of the library

FileDescs == {PyNone, PyStr(<<"A", "b">>), PyStr(<<"c">>)}

TextCriteria ==
    {[NoCriteria EXCEPT !.content = <<"a">>],
     [NoCriteria EXCEPT !.content = <<" ", "B", " ">>],
     [NoCriteria EXCEPT !.title = <<"R", "1">>],
     [NoCriteria EXCEPT !.publisher = <<"P">>, !.content = <<"c">>]}

InitText ==
    /\ \E n \in 0..MaxTextFiles :
          \E synced \in [1..n -> BOOLEAN], descs \in [1..n -> FileDescs] :
             /\ files = [i \in 1..n |->
                            [LibraryFile(i, synced[i], PyStr(<<>>), TagsOf(i))
                                EXCEPT !.file_desc = descs[i]]]
             /\ contents = [i \in 1..n |-> LibraryContent(i, synced[i], TagsOf(i))]
    /\ file_index = _build_file_index(files)
    /\ content_index = EmptyIndex
    /\ disk = [f \in {} |-> NoDoc]
    /\ ing = IngIdle
    /\ ann = AnnIdle
    /\ hist = HistNone
    /\ page_dirs = {}
    /\ faiss = NoFaiss
    /\ search \in [fn : {"FileRetriever"}, pc : {"called"},
                    max_results : {ContentRetriever_max_results},
                    criteria : TextCriteria, idx : {1}, result : {NoneVal}]

SpecText == InitText /\ [][FileRetrieverReturns]_vars

----------------------------------------------------------------------------
(* FileRetriever.run on the rows the extractor writes                      *)

\* the fields of a row FileRetriever.run reads: run() passes the name of
\* the PDF as file_name, and create_file stores '' for source and
\* published_date and [] for tags
FileRecords(fs) ==
    [d \in DOMAIN fs |->
        [file_name |-> fs[d].file_path[Len(fs[d].file_path)], source |-> <<>>,
         published_date |-> PyStr(<<>>), tags |-> <<>>, file_desc |-> fs[d].file_desc,
         opt_msg |-> fs[d].opt_msg]]

\* a search without a filter, at any moment of an ingestion run
FileSearched ==
    /\ search' = [fn |-> "FileRetriever", pc |-> "returned",
                  seq |-> IF search.pc = "none" THEN 0 ELSE 1 - search.seq,
                  result |-> FileRetriever_run(FileRecords(files),
                                               FileRetriever_max_results, NoCriteria, 1)]
    /\ files' = document_setitem(files, DOMAIN files, "uri")
    /\ UNCHANGED <<file_index, contents, content_index, disk, ing, ann, hist, page_dirs,
                   faiss>>

(* Ingestion runs over PDFs of one page that are added between the runs,   *)
(* where the rendering may fail, and searches at any moment                *)
NextQuery ==
    \/ RunStart
    \/ ScanFile
    \/ ProcessInitial
    \/ ProcessPagesUpdating
    \/ ProcessCleanup("ok")
    \/ \E o \in RenderOutcomes : ProcessRender(o)
    \/ ProcessAddPages("ok")
    \/ ProcessCompleted
    \/ AfterProcess
    \/ BatchUpdate
    \/ RunReturns
    \/ RunDone
    \/ \E n \in Names : AddPdf(n, 1)
    \/ FileSearched

SpecQuery == Init /\ [][NextQuery]_vars

(* Calls of the ContentModel writers in any order on a store that starts   *)
(* empty; an insert or a removal of rows may raise; every new row is of    *)
(* another page number                                                     *)
ContentFileIds == {Uuid("file", 1), Uuid("file", 2)}

ContentPageIds == {Uuid("page", n) : n \in 1..MaxContentIds}

WriteFaults == {"none", "remove"}

NextContent ==
    \/ \E f \in ContentFileIds, x \in AiData, fault \in WriteFaults :
          CreateContentCall(f, NextDocId(contents), x, fault)
    \/ \E p \in ContentPageIds, x \in AiData : UpdateContentCall(p, x)
    \/ \E p \in ContentPageIds, fault \in WriteFaults : DeleteContentCall(p, fault)
    \/ \E f \in ContentFileIds, fault \in WriteFaults :
          DeleteContentsByFileIdCall(f, fault)

SpecContent == Init /\ [][NextContent]_vars

----------------------------------------------------------------------------
(* Observations the claims are stated with *)

RowOf(file_id) == files[get_file_by_id(files, file_index, file_id)]
PageNumbers(pages) == {pages[i].page_number : i \in DOMAIN pages}
Synced(row) == ~is_file_changed(files, file_index, disk, row.file_path)
ContentsOf(file_id) == {d \in DOMAIN contents : contents[d].file_id = file_id}
DoneOk(file_id) ==
    {t \in DOMAIN ann.tasks : /\ ann.tasks[t].pc = "done" /\ ann.tasks[t].ok
                              /\ ann.tasks[t].page.file_id = file_id}

----------------------------------------------------------------------------
(* C1: after any sequence of create_file, update_file and delete_file      *)
(* calls the in-memory file index equals the index a full rebuild from the *)
(* files table would produce.                                              *)

C1_IndexEqualsRebuild == file_index = _build_file_index(files)

(* C2: in every state reached by ingestion runs, also runs in which the   *)
(* cleanup of old pages or the rendering fails, the page numbers of each   *)
(* File are exactly 1..N in order.                                         *)

C2_PageNumbersContiguous ==
    \A d \in DOMAIN files :
        \A i \in DOMAIN files[d].pages : files[d].pages[i].page_number = i

(* C3: there is never more than one Content row per (file_id,             *)
(* page_number), and no step removes a Content row or changes its page_id, *)
(* file_id or page_number: re-annotation updates the row in place.         *)

C3_Unique ==
    \A d, e \in DOMAIN contents :
        (contents[d].file_id = contents[e].file_id
         /\ contents[d].page_number = contents[e].page_number) => d = e

C3_KeptInPlace ==
    \A d \in DOMAIN contents :
        /\ d \in DOMAIN contents'
        /\ contents'[d].page_id = contents[d].page_id
        /\ contents'[d].file_id = contents[d].file_id
        /\ contents'[d].page_number = contents[d].page_number

C3_OneContentPerPage == []C3_Unique /\ [][C3_KeptInPlace]_vars

\* two tasks of one run have annotated the same page of a file, and the
\* page has its Content row
C3_Witness ==
    \E t, u \in DOMAIN ann.tasks :
        /\ t # u
        /\ ann.tasks[t].page.file_id = ann.tasks[u].page.file_id
        /\ ann.tasks[t].page.page_number = ann.tasks[u].page.page_number
        /\ ann.tasks[t].pc = "done" /\ ann.tasks[t].ok
        /\ ann.tasks[u].pc = "done" /\ ann.tasks[u].ok
        /\ \E d \in ContentsOf(ann.tasks[t].page.file_id) :
              contents[d].page_number = ann.tasks[t].page.page_number

(* C4: when the run ends, every file process_file set to needs_recovery   *)
(* during the run still has that status and its stored hash / mtime are    *)
(* not those of the file on disk.                                          *)

C4_NeedsRecoveryKept ==
    ing.pc = "done" =>
        \A f \in hist.recovery :
            RowOf(f).opt_msg = "needs_recovery" /\ ~Synced(RowOf(f))

(* C5: when the run ends, a file whose rendering failed during the run is *)
(* neither completed nor processed and its stored hash / mtime are not     *)
(* those of the file on disk.                                              *)

C5_RenderFailureRetried ==
    ing.pc = "done" =>
        \A f \in hist.render_failed :
            RowOf(f).opt_msg \notin {"completed", "processed"} /\ ~Synced(RowOf(f))

(* C6: when the run ends, no Content row is left of a file the run        *)
(* processed again, so no Content row of it names a page number that is    *)
(* not in its Page sequence.                                               *)

C6_OldContentDeleted ==
    ing.pc = "done" =>
        \A f \in hist.reprocessed :
            /\ ContentsOf(f) = {}
            /\ \A d \in ContentsOf(f) :
                  contents[d].page_number \in PageNumbers(RowOf(f).pages)

(* C7: when all tasks of an annotation run have finished and two or more  *)
(* pages of a file were annotated in it, the file's tags are the union of  *)
(* the keywords of all its pages and its description is the non-empty      *)
(* abstracts of its pages in page-number order.                            *)

C7_AggregatesComplete ==
    ann.pc = "done" =>
        \A d \in DOMAIN files :
            Cardinality(DoneOk(files[d].file_id)) >= 2 =>
                /\ files[d].tags = FileTags(files[d].pages)
                /\ files[d].file_desc = FileDesc(files[d].pages)

\* two pages of one file annotated in the run, each with its own keywords
C7_Witness ==
    /\ ann.pc = "done"
    /\ \E d \in DOMAIN files :
          /\ \E t, u \in DoneOk(files[d].file_id) :
                ann.tasks[t].page.page_number # ann.tasks[u].page.page_number
          /\ Len(files[d].file_desc) = 2
          /\ files[d].file_desc[1] # files[d].file_desc[2]

(* C8: when the worker stopped between the write of a page's flag and the *)
(* recomputation of the aggregates, the next annotation run ends with the  *)
(* aggregates an uninterrupted run leaves: those of all pages.             *)

C8_CutRunRecovered ==
    ann.pc = "done" =>
        \A p \in hist.cut :
            /\ RowOf(p.file_id).tags = FileTags(RowOf(p.file_id).pages)
            /\ RowOf(p.file_id).file_desc = FileDesc(RowOf(p.file_id).pages)

(* C9: a page whose every attempt of the run failed with a timeout or a   *)
(* rate-limit answer is still pending when its task has ended.             *)

C9_TransientLeavesPending ==
    \A t \in DOMAIN ann.tasks :
        (ann.tasks[t].pc = "done" /\ ~ann.tasks[t].ok /\ ann.tasks[t].only_transient) =>
            \E i \in DOMAIN _get_unidentified(files) :
                _get_unidentified(files)[i] = ann.tasks[t].page

(* C10: an ingestion run started right after another one, with no change  *)
(* on disk in between, writes nothing to the store and renders nothing.    *)

C10_SecondRunWritesNothing == hist.second => ~hist.wrote

(* C11: when an ingestion run ends, every File row whose source file is   *)
(* missing on disk has been acted on by the run: process_file was called   *)
(* for it, so it does not keep its completed / processed status and old    *)
(* pages as if nothing had happened.                                       *)

C11_MissingFileActedOn ==
    ing.pc = "done" =>
        \A d \in DOMAIN files :
            ~path_exists(disk, files[d].file_path) =>
                files[d].file_id \in hist.reprocessed

(* C12: every change of a file's stored status follows an edge of the     *)
(* state machine: created as 'initial', optionally pending_processing      *)
(* next, back to 'initial' (pending), pages_updating, then completed and   *)
(* the final 'processed', or needs_recovery from pages_updating; a later   *)
(* run starts again at 'initial'. In particular pending_processing is not  *)
(* written over pages_updating, completed or needs_recovery.               *)

StatusEdges ==
    {<<"initial", "pending_processing">>, <<"pending_processing", "initial">>,
     <<"initial", "pages_updating">>, <<"pages_updating", "completed">>,
     <<"pages_updating", "needs_recovery">>, <<"completed", "processed">>,
     <<"processed", "initial">>, <<"completed", "initial">>,
     <<"needs_recovery", "initial">>}

C12_StatusStep ==
    \A d \in DOMAIN files \cap DOMAIN files' :
        files'[d].opt_msg # files[d].opt_msg =>
            <<files[d].opt_msg, files'[d].opt_msg>> \in StatusEdges

C12_StatusFollowsEdges == [][C12_StatusStep]_vars

(* C13: a file for which process_file raised in an ingestion run is       *)
(* processed again by the next ingestion run, if it is still in the        *)
(* source directory.                                                       *)

C13_RaisedIsRetried ==
    ing.pc = "done" =>
        \A f \in hist.retry :
            path_exists(disk, RowOf(f).file_path) => f \in hist.reprocessed

(* C14: at every moment of an annotation run at most Permits (2) pages    *)
(* are inside the section the semaphore guards: an annotate call in        *)
(* flight, a store update or the sleep between two attempts.               *)

InSection == {t \in DOMAIN ann.tasks : ann.tasks[t].pc = "calling"}

C14_AtMostPermitsInSection == Cardinality(InSection) <= Permits

\* both permits are held while a further page waits for one
C14_Witness ==
    /\ Cardinality(InSection) = Permits
    /\ \E t \in DOMAIN ann.tasks : ann.tasks[t].pc = "waiting"
    /\ \E t \in InSection : ann.tasks[t].attempt > 0

(* C15: a failure on one file does not abort an ingestion run and leaves   *)
(* the file retryable: when the run ends every PDF of the listing has been *)
(* examined, and every file whose processing raised is one that the next   *)
(* run's change test selects again.                                        *)

Retryable(f) ==
    \/ md5_raises(disk, RowOf(f).file_path)
    \/ is_file_changed(files, file_index, disk, RowOf(f).file_path)

C15_FailedUnitRetryable ==
    ing.pc = "done" =>
        /\ ing.todo = <<>>
        /\ \A f \in hist.raised :
               path_exists(disk, RowOf(f).file_path) => Retryable(f)

(* C16: _match_keywords matches under AND iff every criterion keyword is   *)
(* found among the target keywords (equal after trimming, whatever the     *)
(* case), under OR iff at least one is, and always with no criterion       *)
(* keyword; the list it returns holds exactly the criterion keywords that  *)
(* were found.                                                             *)

SameKeyword(q, t) == lower(strip(q)) = lower(strip(t))

FoundIn(q, targets) == \E i \in DOMAIN targets : SameKeyword(q, targets[i])

FoundKeywords(keywords, targets) ==
    LET in_target(q) == FoundIn(q, targets) IN SelectSeq(keywords, in_target)

KeywordsReturned == search.fn = "_match_keywords" /\ search.pc = "returned"

MatchesAsStated ==
    LET kws == search.criteria.keywords
        tgt == search.target_keywords
    IN search.result.ok <=>
          \/ kws = <<>>
          \/ search.criteria.match_logic = "AND"
                /\ \A i \in DOMAIN kws : FoundIn(kws[i], tgt)
          \/ search.criteria.match_logic = "OR"
                /\ \E i \in DOMAIN kws : FoundIn(kws[i], tgt)

\* as stated: the returned list is the found keywords, match or no match
C16_MatchedIsFound ==
    KeywordsReturned =>
        /\ MatchesAsStated
        /\ search.result.matched =
              FoundKeywords(search.criteria.keywords, search.target_keywords)

(* C16, amended: the returned list holds exactly the found criterion       *)
(* keywords when _match_keywords reports a match, and is empty when it     *)
(* reports none.                                                           *)
C16_MatchedIsFoundOnMatch ==
    KeywordsReturned =>
        /\ MatchesAsStated
        /\ search.result.ok =>
              search.result.matched =
                  FoundKeywords(search.criteria.keywords, search.target_keywords)
        /\ ~search.result.ok => search.result.matched = <<>>

\* an AND match of two keywords, one of them equal to its target only after
\* trimming and lower-casing
C16_Witness ==
    /\ KeywordsReturned
    /\ search.criteria.match_logic = "AND"
    /\ search.criteria.keywords = <<<<" ", "a">>, <<"b">>>>
    /\ search.target_keywords = <<<<"b">>, <<"A">>>>
    /\ search.result = [ok |-> TRUE, matched |-> search.criteria.keywords]

(* C17: _match_date is true iff the target has a date and that date lies   *)
(* between the dates of the start and end bounds that are present, both    *)
(* inclusive, whatever the times of day; a target that is no date or is    *)
(* absent never passes.                                                    *)

DayNumber(d) == d.y * 10000 + d.m * 100 + d.d

DatesReturned == search.fn = "_match_date" /\ search.pc = "returned"

C17_DateInRange ==
    DatesReturned =>
        LET start == search.criteria.start_date
            end == search.criteria.end_date
            day == search.target.day
        IN search.result <=>
              /\ day # NoDay
              /\ start # PyNone => DayNumber(date(start.v)) <= DayNumber(day)
              /\ end # PyNone => DayNumber(day) <= DayNumber(date(end.v))

\* a target late on the day of both bounds, the end bound at midnight
C17_Witness ==
    /\ DatesReturned
    /\ search.target.value = PyStr(isodatetime(Day(2024, 3, 15), "T", 23))
    /\ search.criteria.start_date = PyDatetime(datetime(2024, 3, 15, 23, FALSE))
    /\ search.criteria.end_date = PyDatetime(datetime(2024, 3, 15, 0, FALSE))
    /\ search.result = TRUE

(* C18: a search with M matches and page size S reports totalMatches = M   *)
(* and totalPages = ceil(M / S), and its page i, 1 <= i <= totalPages,     *)
(* holds the items (i-1)*S+1 .. min(i*S, M) of the ranked list of matches, *)
(* so that the pages in order make up the ranked list.                     *)

Returned == search.fn \in Retrievers /\ search.pc = "returned"

\* the matches of the search of this state, as run() has them after its sort
RankedMatches ==
    Ranked(IF search.fn = "FileRetriever"
           THEN FileResults(get_all_files(files), search.criteria).results
           ELSE ContentResults(AllRows(contents, DOMAIN contents), files,
                               search.criteria).results,
           search.criteria).results

CeilDiv(m, s) == CHOOSE t \in 0..m : t * s >= m /\ (t - 1) * s < m

LastPage == CeilDiv(Len(RankedMatches), search.max_results)

RECURSIVE PagesUpTo(_)
PagesUpTo(i) ==
    IF i = 0 THEN <<>>
    ELSE PagesUpTo(i - 1)
         \o (IF search.fn = "FileRetriever"
             THEN FileRetriever_run(files, search.max_results, search.criteria, i)
             ELSE ContentRetriever_run(files, contents, search.max_results,
                                       search.criteria, i)).results

C18_PagesPartition ==
    (Returned /\ search.idx \in 1..LastPage) =>
        LET M == Len(RankedMatches)
            S == search.max_results
            from == (search.idx - 1) * S
            upto == IF search.idx * S < M THEN search.idx * S ELSE M
        IN /\ search.result.total_matches = M
           /\ search.result.total_pages = LastPage
           /\ search.result.results = [k \in 1..(upto - from) |-> RankedMatches[from + k]]
           /\ search.idx = LastPage => PagesUpTo(LastPage) = RankedMatches

\* seven matches, two to a page: the fourth and last page holds the seventh
C18_Witness ==
    /\ Returned
    /\ Len(RankedMatches) = 7 /\ search.max_results = 2 /\ search.idx = 4
    /\ search.result.total_pages = 4
    /\ search.result.results = <<RankedMatches[7]>>

(* C19: a search with a page index below 1, or beyond the last page while  *)
(* there are matches, ends with an outcome that no valid search without    *)
(* a match ends with.                                                      *)

\* the outcomes of valid searches that match nothing: no file is synced, no
\* page is a main page
ZeroMatchOutcomes ==
    LET lib(n) == [i \in 1..n |-> LibraryFile(i, FALSE, PyStr(<<>>), TagsOf(i))]
        pages(n) == [i \in 1..n |-> LibraryContent(i, FALSE, TagsOf(i))]
    IN UNION {{FileRetriever_run(lib(n), s, c, j),
               ContentRetriever_run(lib(n), pages(n), s, c, j)} :
                 n \in 1..2, s \in PageSizes, c \in PageCriteria, j \in 1..MaxIndex}

PageIndexError ==
    \/ search.idx < 1
    \/ Len(RankedMatches) > 0 /\ search.idx > LastPage

Stamp(published_date) == (CHOOSE r \in RankDates : r.value = published_date).stamp

C20_RankedOrder ==
    Returned =>
        LET res == search.result.results
            n == Cardinality(DOMAIN files)
        IN /\ search.result.total_matches = n
           /\ Len(res) = n
           /\ \A i, j \in DOMAIN res :
                 i < j =>
                    IF search.criteria.keywords # <<>>
                    THEN Len(res[i].matched_keywords) >= Len(res[j].matched_keywords)
                    ELSE Stamp(res[i].published_date) >= Stamp(res[j].published_date)

----------------------------------------------------------------------------
(* Vector search *)

QueryReturned == faiss.query.pc = "returned"

QueryHits == {faiss.query.result[i].page_id : i \in DOMAIN faiss.query.result}

\* C21: a query that returns hits returns at most K of them, each with a
\* similarity of at least the threshold, and no page whose abstract is less
\* similar to the query than the threshold is among them
C21_HitsReachThreshold ==
    (QueryReturned /\ ~faiss.query.raised) =>
        /\ Len(faiss.query.result) <= faiss.query.k
        /\ \A i \in DOMAIN faiss.query.result :
              faiss.query.result[i].vector_similarity >= faiss.query.recall_threshold
        /\ \A d \in DOMAIN contents :
              encode(contents[d].abstract) < faiss.query.recall_threshold
                  => contents[d].page_id \notin QueryHits

\* C21: a query returned fewer hits than K, and at least one, over an index
\* that holds a neighbour below the threshold
C21_Witness ==
    /\ QueryReturned /\ ~faiss.query.raised
    /\ faiss.query.result # <<>>
    /\ Len(faiss.query.result) < faiss.query.k
    /\ \E i \in DOMAIN faiss.query.index.data :
          faiss.query.index.data[i] < faiss.query.recall_threshold

\* C22: a query made while the persisted index or the persisted mapping is
\* missing ends with an error
C22_MissingArtifactFails ==
    [][(faiss.query.pc = "idle" /\ faiss'.query.pc # "idle"
            /\ (faiss.index_file.build = 0 \/ faiss.ids_file.build = 0))
        => (faiss'.query.pc = "returned" /\ faiss'.query.raised)]_vars

\* C22: a query has failed with the index on disk and the mapping missing
C22_Witness ==
    /\ QueryReturned /\ faiss.query.raised
    /\ faiss.index_file.build # 0
    /\ faiss.ids_file.build = 0

\* the page ids of the Content rows that had an abstract when the rebuild
\* read the table
AbstractIdsAtBuild ==
    {faiss.pre.at_build[d].page_id :
        d \in {x \in DOMAIN faiss.pre.at_build : IsAbstract(faiss.pre.at_build[x].abstract)}}

\* C23: when precalculation has returned without an error, the persisted
\* mapping lists exactly the ids of the Content rows that had an abstract
\* when it was built, one for each position of the persisted index
C23_MappingIsCorpus ==
    faiss.pre.pc = "returned" =>
        /\ {faiss.ids_file.data[i] : i \in DOMAIN faiss.ids_file.data} = AbstractIdsAtBuild
        /\ Len(faiss.ids_file.data) = Cardinality(AbstractIdsAtBuild)
        /\ Len(faiss.index_file.data) = Len(faiss.ids_file.data)

\* C24: a query that has loaded an index and a mapping written by different
\* builds ends with an error
C24_MixedBuildsFail ==
    (QueryReturned /\ faiss.query.index.build # 0
        /\ faiss.query.page_ids.build # faiss.query.index.build) => faiss.query.raised

----------------------------------------------------------------------------
(* The calls of the store interface *)

BatchFns ==
    {"FileRetriever", "ContentRetriever", "get_contents_by_file_id", "get_files_by_ids",
     "delete_contents_by_file_id"}

\* C25: a call of a search, of a batch read or of the batch delete during
\* which the store has failed ends with an error
C25_StoreFailureRaises ==
    (search.pc = "returned" /\ search.fn \in BatchFns /\ search.fault # "none")
        => search.raised

\* the key of the call under way belongs to no row
KeyAbsent ==
    CASE search.fn = "get_file_by_id" ->
            \A d \in DOMAIN files : files[d].file_id # search.key
      [] search.fn = "get_file_by_path" ->
            \A d \in DOMAIN files : normpath(files[d].file_path) # normpath(search.key)
      [] search.fn = "get_content_by_page_id" ->
            \A d \in DOMAIN contents : contents[d].page_id # search.key
      [] OTHER -> FALSE

\* C27: a lookup by file id, by path or by page id of a key that belongs to
\* no row returns no record, does not raise and leaves the tables and both
\* indexes as they were
C27_AbsentKeyNotFound ==
    [][(search.pc = "called" /\ search'.pc = "returned" /\ KeyAbsent)
        => (search'.result = NoDoc /\ ~search'.raised /\ store' = store)]_vars

\* C27: a lookup of a page id that belongs to no row has returned no record
\* from a table that holds rows
C27_Witness ==
    /\ search.pc = "returned" /\ search.fn = "get_content_by_page_id"
    /\ KeyAbsent
    /\ DOMAIN contents # {}
    /\ search.result = NoDoc

C26_OnePathPerRow ==
    \A d, e \in DOMAIN files :
        d # e => normpath(files[d].file_path) # normpath(files[e].file_path)

----------------------------------------------------------------------------
(* Rejected pages *)

\* the page record a task works on
PageOfTask(t) ==
    LET d == get_file_by_id(files, file_index, ann.tasks[t].page.file_id)
    IN files[d].pages[CHOOSE i \in DOMAIN files[d].pages :
                          files[d].pages[i].page_number = ann.tasks[t].page.page_number]

\* the task has ended after max_retries attempts, none of them answered
\* (in SpecReject an attempt is either answered or rejected for good)
RejectedEveryTime(t) ==
    /\ ann.tasks[t].pc = "done"
    /\ ~ann.tasks[t].ok
    /\ ann.tasks[t].attempt = max_retries - 1
    /\ ~ann.tasks[t].only_transient

MarkedEmpty(p) ==
    /\ p.is_aigc = TRUE
    /\ p.property = "" /\ p.title = "" /\ p.abstract = "" /\ p.keywords = {}

RejectedPagesMarked ==
    /\ \A t \in DOMAIN ann.tasks : RejectedEveryTime(t) => MarkedEmpty(PageOfTask(t))
    /\ \A t \in DOMAIN ann.tasks :
          ann.tasks[t].pc \in {"waiting", "calling"} => PageOfTask(t).is_aigc = FALSE

MarkStays ==
    \A d \in DOMAIN files : \A i \in DOMAIN files[d].pages :
        MarkedEmpty(files[d].pages[i]) =>
            /\ d \in DOMAIN files' /\ i \in DOMAIN files'[d].pages
            /\ MarkedEmpty(files'[d].pages[i])

\* C29: a page rejected on each of the max_retries attempts of a run is
\* marked annotated with empty category, title, abstract and keywords, the
\* mark stays, and no task waits for or calls the service for a page that is
\* marked annotated
C29_RejectedPageMarked == []RejectedPagesMarked /\ [][MarkStays]_vars

\* C29: a second annotation run has found nothing to do while a page of the
\* file carries the mark of a rejected page
C29_Witness ==
    /\ hist.ann_runs = 2
    /\ ann.pc = "done" /\ ann.tasks = <<>>
    /\ \E d \in DOMAIN files : \E i \in DOMAIN files[d].pages :
          MarkedEmpty(files[d].pages[i])

----------------------------------------------------------------------------
(* The cleanup of process_file *)

\* the PDF of a File row
PdfOf(d) == files[d].file_path[Len(files[d].file_path)]

\* the step empties the page records of the row or removes the directory of
\* its page images
CleansUp(d) ==
    \/ files[d].pages # <<>> /\ (d \notin DOMAIN files' \/ files'[d].pages = <<>>)
    \/ PdfOf(d) \in page_dirs /\ PdfOf(d) \notin page_dirs'

\* C30: a step that empties the page records of a file or removes the
\* directory of its page images starts from a state in which the status of
\* the file is 'pages_updating'
C30_CleanupAfterCommit ==
    [][\A d \in DOMAIN files : CleansUp(d) => files[d].opt_msg = "pages_updating"]_vars

\* C30: process_file has returned through a failed write of
\* 'pages_updating' for a file that has been processed before; its page
\* records and the directory of its page images are still there
C30_Witness ==
    /\ ing.pc = "returned"
    /\ ing.cur \in hist.raised
    /\ \E d \in DOMAIN files :
          /\ files[d].file_id = ing.cur
          /\ files[d].opt_msg = "initial"
          /\ files[d].pages # <<>>
          /\ PdfOf(d) \in page_dirs

----------------------------------------------------------------------------
(* C31: the status of a file becomes 'completed' only in a step of        *)
(* process_file in which add_pages had answered True for a rendering that *)
(* produced at least one page                                              *)
BecomesCompleted(d) ==
    /\ d \in DOMAIN files'
    /\ files[d].opt_msg # "completed"
    /\ files'[d].opt_msg = "completed"

C31_CompletedMeansPersisted ==
    [][\A d \in DOMAIN files :
          BecomesCompleted(d) => ing.added /\ ing.pages_paths # <<>>]_vars

----------------------------------------------------------------------------
(* C32: in one annotation run the service is called at most three times   *)
(* for a pending page, and never again after an attempt that succeeded     *)
CallsBounded == \A t \in DOMAIN hist.calls : hist.calls[t] <= 3

NoCallAfterSuccess ==
    \A t \in DOMAIN ann.tasks :
        (ann.tasks[t].ok /\ t \in DOMAIN hist.calls')
            => (hist.calls'[t] = hist.calls[t] \/ hist.calls' = <<>>)

C32_AtMostThreeCalls == []CallsBounded /\ [][NoCallAfterSuccess]_vars

\* a page was tried three times, another one succeeded at the second call
C32_Witness ==
    /\ ann.pc = "running"
    /\ \E t, u \in DOMAIN ann.tasks :
          /\ ann.tasks[t].pc = "done" /\ ~ann.tasks[t].ok /\ hist.calls[t] = 3
          /\ ann.tasks[u].pc = "done" /\ ann.tasks[u].ok /\ hist.calls[u] = 2

----------------------------------------------------------------------------
(* C33: after an annotation run has stopped, the pages whose call of the  *)
(* service was still open are not flagged and the next run takes them,    *)
(* and a page that was flagged keeps its flag and its annotation          *)
PageRecords(p) ==
    {r \in {RowOf(p.file_id).pages[i] : i \in DOMAIN RowOf(p.file_id).pages} :
        r.page_number = p.page_number}

AbandonedPending ==
    \A p \in hist.abandoned :
        PageRecords(p) # {} /\ \A r \in PageRecords(p) : r.is_aigc = FALSE

AbandonedSelected ==
    (ann.pc = "idle" /\ ann'.pc # "idle") =>
        \A p \in hist.abandoned : \E t \in DOMAIN ann'.tasks : ann'.tasks[t].page = p

CommittedKept ==
    \A d \in DOMAIN files : \A i \in DOMAIN files[d].pages :
        files[d].pages[i].is_aigc =>
            /\ d \in DOMAIN files'
            /\ i \in DOMAIN files'[d].pages
            /\ files'[d].pages[i] = files[d].pages[i]

C33_StopKeepsCommitted ==
    []AbandonedPending /\ [][AbandonedSelected /\ CommittedKept]_vars

\* a run has stopped with one page annotated and the call for the other
\* one open, and another run can start
C33_Witness ==
    /\ ann.pc = "idle"
    /\ hist.ann_runs < MaxAnnRuns
    /\ \E p \in hist.abandoned :
          /\ \A r \in PageRecords(p) : ~r.is_aigc
          /\ \E i \in DOMAIN RowOf(p.file_id).pages :
                /\ RowOf(p.file_id).pages[i].is_aigc
                /\ RowOf(p.file_id).pages[i].abstract = "a1"

----------------------------------------------------------------------------
(* C34: while no annotation run is under way, every page that is flagged  *)
(* and holds annotation data has exactly one Content row of its file and  *)
(* page number, with the page's title, category, abstract and keywords    *)
HasAnnotation(p) ==
    p.is_aigc /\ <<p.title, p.property, p.abstract, p.keywords>> # <<"", "", "", {}>>

ContentRowsOf(file_id, page_number) ==
    {c \in ContentsOf(file_id) : contents[c].page_number = page_number}

C34_AnnotatedPageHasContent ==
    ann.pc = "idle" =>
        \A d \in DOMAIN files : \A i \in DOMAIN files[d].pages :
            LET p == files[d].pages[i]
                rows == ContentRowsOf(files[d].file_id, p.page_number)
            IN HasAnnotation(p) =>
                  /\ Cardinality(rows) = 1
                  /\ \A c \in rows :
                        /\ contents[c].title = p.title
                        /\ contents[c].property = p.property
                        /\ contents[c].abstract = p.abstract
                        /\ contents[c].keywords = p.keywords

----------------------------------------------------------------------------
(* C35: after any calls of create_content, update_content, delete_content *)
(* and delete_contents_by_file_id the content index maps the page id of   *)
(* every stored row to the row and every file id to the set of its rows;  *)
(* a delete_contents_by_file_id(f) that returned a count leaves no page id *)
(* of f resolvable and no row of f listed, and the rows and index entries *)
(* of other files as they were                                            *)
StoredOf(cs, file_id) == {d \in DOMAIN cs : cs[d].file_id = file_id}

SetOf(cidx, file_id) == IF file_id \in DOMAIN cidx THEN cidx[file_id] ELSE {}

ContentIndexMirrors ==
    /\ \A d \in DOMAIN contents : IndexGet(content_index, contents[d].page_id) = d
    /\ \A f \in ContentFileIds : SetOf(content_index, f) = StoredOf(contents, f)

FileContentsDeleted ==
    (search'.fn = "delete_contents_by_file_id" /\ search'.fault = "none") =>
        \A d \in DOMAIN contents :
            IF contents[d].file_id = search'.key
            THEN /\ get_content_by_page_id(contents', content_index',
                                           contents[d].page_id) = NoDoc
                 /\ get_contents_by_file_id(contents', content_index', search'.key,
                                            FALSE) = <<>>
            ELSE /\ d \in DOMAIN contents' /\ contents'[d] = contents[d]
                 /\ IndexGet(content_index', contents[d].page_id) = d
                 /\ SetOf(content_index', contents[d].file_id)
                        = SetOf(content_index, contents[d].file_id)

C35_ContentIndexConsistent == []ContentIndexMirrors /\ [][FileContentsDeleted]_vars

\* delete_contents_by_file_id has removed the two rows of a file and the
\* row of the other file is in the table
C35_Witness ==
    /\ search.fn = "delete_contents_by_file_id" /\ search.fault = "none"
    /\ search.result = 2
    /\ StoredOf(contents, search.key) = {}
    /\ \E d \in DOMAIN contents : contents[d].file_id # search.key

----------------------------------------------------------------------------
(* C36: a call of update_file that ends with an error has changed neither *)
(* the files table nor the file index                                      *)
UpdateFileFailed ==
    /\ search.fn = "update_file" /\ search.pc = "called"
    /\ search'.pc = "returned" /\ search'.err # "none"

C36_FailedUpdateChangesNothing ==
    [][UpdateFileFailed => (files' = files /\ file_index' = file_index)]_vars

----------------------------------------------------------------------------
(* C37: a File-level search with a text filter returns exactly the        *)
(* processed files whose description, display name and source contain the *)
(* text of the content, title and publisher filter, whatever the case of  *)
(* the letters; a file is judged by its own fields only                   *)
SameLetters(target, text, at) ==
    \A i \in DOMAIN text : LowerOf(target[at + i]) = LowerOf(text[i])

TextIn(target, text) ==
    \/ strip(text) = <<>>
    \/ /\ target.type = "str"
       /\ \E at \in 0..(Len(target.v) - Len(strip(text))) :
             SameLetters(target.v, strip(text), at)

TextMatches(file, criteria) ==
    /\ file.opt_msg = "processed"
    /\ TextIn(file.file_desc, criteria.content)
    /\ TextIn(PyStr(file.file_name), criteria.title)
    /\ TextIn(PyStr(file.source), criteria.publisher)

C37_TextFilterPerFile ==
    (search.fn = "FileRetriever" /\ search.pc = "returned"
        /\ search.criteria \in TextCriteria) =>
        {search.result.results[i].file_name : i \in DOMAIN search.result.results}
            = {files[d].file_name : d \in {e \in DOMAIN files :
                                              TextMatches(files[e], search.criteria)}}

----------------------------------------------------------------------------
(* C38: while neither an ingestion nor an annotation run is under way,    *)
(* the tags of every file are the keywords of its current pages and its   *)
(* description is the non-empty abstracts of its current pages in the     *)
(* order of the page numbers (no description at all when there is none)   *)
KeywordsOfPages(pages) == UNION {pages[i].keywords : i \in DOMAIN pages}

AbstractsOfPages(pages) ==
    {pages[i].abstract : i \in {j \in DOMAIN pages :
                                  pages[j].abstract \notin {NoneVal, ""}}}

DescribesPages(desc, pages) ==
    IF desc = NoneVal THEN AbstractsOfPages(pages) = {}
    ELSE /\ {desc[i] : i \in DOMAIN desc} = AbstractsOfPages(pages)
         /\ desc = FileDesc(pages)

C38_AggregatesOfCurrentPages ==
    Idle =>
        \A d \in DOMAIN files :
            /\ files[d].tags = KeywordsOfPages(files[d].pages)
            /\ DescribesPages(files[d].file_desc, files[d].pages)

----------------------------------------------------------------------------
(* C39: a File-level search returns only files whose stored status is     *)
(* 'processed' at the time of the query, and when an ingestion run ends   *)
(* every file it processed without an exception has the status            *)
(* 'processed'                                                            *)
NamesWithStatus(fs, statuses) ==
    {fs[d].file_path[Len(fs[d].file_path)] :
        d \in {e \in DOMAIN fs : fs[e].opt_msg \in statuses}}

OnlyProcessedReturned ==
    search' # search =>
        \A i \in DOMAIN search'.result.results :
            search'.result.results[i].file_name \in NamesWithStatus(files, {"processed"})

RunEndsProcessed ==
    ing.pc = "done" =>
        \A f \in hist.reprocessed \ hist.raised : RowOf(f).opt_msg = "processed"

C39_OnlyProcessedFound == []RunEndsProcessed /\ [][OnlyProcessedReturned]_vars

\* a search during a run has returned one file while another one, which
\* is being processed, is left out
C39_Witness ==
    /\ search.pc = "returned"
    /\ Len(search.result.results) = 1
    /\ ing.pc \notin {"idle", "done"}
    /\ NamesWithStatus(files, {"initial", "pending_processing", "pages_updating",
                               "completed", "needs_recovery"}) # {}
    /\ NamesWithStatus(files, {"processed"})
          = {search.result.results[1].file_name}

----------------------------------------------------------------------------
(* C40: an annotation run in which every call of the service is answered  *)
(* ends: no task makes more than three attempts, the permits are all free *)
(* once the tasks have ended, however they ended, no task waits for a     *)
(* permit forever, and gather returns                                     *)
AttemptsBounded ==
    \A t \in DOMAIN ann.tasks : ann.tasks[t].attempt < 3 /\ hist.calls[t] <= 3

PermitsGivenBack ==
    (\A t \in DOMAIN ann.tasks : ann.tasks[t].pc = "done")
        => semaphore_value(ann.tasks) = 2

EveryTaskGetsPermit ==
    \A t \in 1..PoolPages :
        (ann.pc = "running" /\ t \in DOMAIN ann.tasks /\ ann.tasks[t].pc = "waiting")
            ~> (ann.pc # "running" \/ ann.tasks[t].pc # "waiting")

C40_RunTerminates ==
    /\ [](AttemptsBounded /\ PermitsGivenBack)
    /\ EveryTaskGetsPermit
    /\ (ann.pc = "running") ~> (ann.pc = "done")

\* the run has ended after a task that had waited for a permit failed
\* three times and the others succeeded
C40_Witness ==
    /\ ann.pc = "done"
    /\ Len(ann.tasks) = PoolPages
    /\ ~ann.tasks[PoolPages].ok /\ hist.calls[PoolPages] = 3
    /\ \A t \in 1..(PoolPages - 1) : ann.tasks[t].ok
    /\ semaphore_value(ann.tasks) = 2

====
